---- MODULE Spec2Model ----
(***************************************************************************)
(* HypothesisAI research pipeline: the rule-based supervisor              *)
(* (backend/app/agents/supervisor.py), the five workers                    *)
(* (backend/app/agents/*.py) and the LangGraph driver that alternates      *)
(* them (backend/.sandbox/orchestrator-implementation.py), operating on    *)
(* one ResearchState (backend/app/schemas/state.py).                       *)
(*                                                                         *)
(* Abstractions: the paper list is its length (the supervisor and the     *)
(* workers' guards only read len(papers)); a synthesis is its pattern and  *)
(* gap counts; a hypothesis is its id and its confidence in tenths; a      *)
(* methodology is the hypothesis id it belongs to; a validation result is  *)
(* its hypothesis id and verdict; uuid4 ids are the least ids not in use; an*)
(* error entry is the tag add_error puts in front, the worker's fixed      *)
(* message and the exception text; execution_history is its last entry.    *)
(*                                                                         *)
(* The second pipeline of the repository, the LangGraph workflow of        *)
(* backend/src/agent/graph.py with its generative supervisor, is modelled  *)
(* on its own state (graph_state, graph_pc). A run is a run of one of the  *)
(* two pipelines; the other one stays idle.                                *)
(*                                                                         *)
(* Several workflow instances that share the orchestrator's one            *)
(* SupervisorAgent are modelled on instances and shared_retry_counts:      *)
(* each instance is followed through the stages whose handlers read or     *)
(* write a retry counter (search, synthesis, generation) up to the         *)
(* hand-over to methodology design.                                        *)
(*                                                                         *)
(* The literature step (agent/tools/preprint_apis.py, agent/workflow_utils.py,*)
(* agent/graph.py, app/agents/literature_hunter.py) is modelled on strategies,*)
(* candidates and search_result: the strategies of one step are executed and*)
(* the deduplication, ranking and cap functions are applied to the candidate*)
(* list. Titles are character sequences, scores exact multiples of tenths. *)
(*                                                                         *)
(* SupervisorAgent.process as a function of the state it is given is followed*)
(* from the states of ProcessInit, one call each.                          *)
(***************************************************************************)
EXTENDS Integers, Sequences, FiniteSets, TLC

VARIABLES
    status,             \* state["status"]
    current_agent,      \* state["current_agent"]
    should_continue,    \* state["should_continue"]
    max_papers,         \* state["max_papers"]
    papers,             \* len(state["papers"])
    synthesis,          \* state["synthesis"]
    hypotheses,         \* state["hypotheses"]
    methodologies,      \* state["methodologies"]
    validation_results, \* state["validation_results"]
    errors,             \* state["errors"]
    last_decision,      \* state["execution_history"][-1]["decision"]
    retry_counts,       \* SupervisorAgent.retry_counts[workflow_id]
    max_retries,        \* SupervisorAgent.max_retries (configuration)
    max_duration_seconds, \* SupervisorAgent.config['max_duration_seconds'], 0 = not configured
    elapsed,            \* utcnow() - started_at, in seconds
    pc,                 \* the graph node the driver runs next
    ran,                \* per worker: how its executions went so far
    graph_state,        \* agent.state.ResearchState of the LangGraph pipeline
    graph_pc,           \* the node of agent.graph the LangGraph runtime runs next
    instances,          \* per workflow_id: the ResearchState of a concurrent run
    shared_retry_counts, \* SupervisorAgent.retry_counts, keyed by workflow_id
    strategies,         \* the searches of one literature step: priority, outcome, papers returned
    candidates,         \* all_papers: the combined candidate list of the literature step
    search_result,      \* the list the function applied last returned
    search_pc,          \* the function of the literature step applied last
    search_max_papers,  \* the caller's requested maximum (max_papers, max_results_per_server)
    detection           \* PreprintAggregator.search_all: the query, the field detected, the servers searched

vars == <<status, current_agent, should_continue, max_papers, papers, synthesis,
          hypotheses, methodologies, validation_results, errors, last_decision,
          retry_counts, max_retries, max_duration_seconds, elapsed, pc, ran,
          graph_state, graph_pc, instances, shared_retry_counts,
          strategies, candidates, search_result, search_pc, search_max_papers, detection>>

control == <<status, current_agent, should_continue, retry_counts>>
artifacts == <<papers, synthesis, hypotheses, methodologies, validation_results>>

\* ---------------------------------------------------------------- bounds
MaxHyps == 2
MaxElapsed == 2

\* ---------------------------------------------------------------- enums
SUPERVISOR == "supervisor"
LITERATURE_HUNTER == "literature_hunter"
KNOWLEDGE_SYNTHESIZER == "knowledge_synthesizer"
HYPOTHESIS_GENERATOR == "hypothesis_generator"
METHODOLOGY_DESIGNER == "methodology_designer"
VALIDATION == "validation"
None == "none"

AgentType == {SUPERVISOR, LITERATURE_HUNTER, KNOWLEDGE_SYNTHESIZER,
              HYPOTHESIS_GENERATOR, METHODOLOGY_DESIGNER, VALIDATION}
Workers == AgentType \ {SUPERVISOR}

INITIALIZED == "initialized"
SEARCHING == "searching"
SYNTHESIZING == "synthesizing"
GENERATING == "generating"
VALIDATING == "validating"
COMPLETED == "completed"
FAILED == "failed"

WorkflowStatus == {INITIALIZED, SEARCHING, SYNTHESIZING, GENERATING, VALIDATING,
                   COMPLETED, FAILED}
Terminal == {COMPLETED, FAILED}

\* ---------------------------------------------------------------- workflow.py
\* the static adjacency table of status transitions
VALID_TRANSITIONS ==
    [s \in WorkflowStatus |->
        CASE s = INITIALIZED -> {SEARCHING, FAILED}
          [] s = SEARCHING -> {SYNTHESIZING, FAILED}
          [] s = SYNTHESIZING -> {GENERATING, FAILED}
          [] s = GENERATING -> {VALIDATING, FAILED}
          [] s = VALIDATING -> {COMPLETED, FAILED}
          [] OTHER -> {}]

is_valid_transition(current, next) == next \in VALID_TRANSITIONS[current]

\* ---------------------------------------------------------------- configuration
default_max_retries ==
    [a \in Workers |->
        CASE a = LITERATURE_HUNTER -> 3
          [] a = KNOWLEDGE_SYNTHESIZER -> 2
          [] a = HYPOTHESIS_GENERATOR -> 2
          [] a = METHODOLOGY_DESIGNER -> 2
          [] OTHER -> 1]

\* a config={'max_retries': ...} with a single retry per stage
single_max_retries == [a \in Workers |-> 1]

min_papers == 5
min_patterns == 2
min_hypotheses == 1
min_confidence == 5      \* 0.5, in tenths
max_errors == 5
poor_synthesis_paper_bound == 20
poor_synthesis_max_papers == 50
max_papers_cap == 200
filter_min_confidence == 4   \* 0.4, in tenths
fallback_confidence == 3     \* 0.3, in tenths
max_hypotheses_kept == 5
max_methodologies == 3

\* ---------------------------------------------------------------- inputs
\* the configurations a run is started with: the supervisor's max_retries and
\* max_duration_seconds, and the max_papers passed to create_initial_state
Configs ==
    { [max_retries |-> default_max_retries, max_duration_seconds |-> 0, max_papers |-> 50],
      [max_retries |-> default_max_retries, max_duration_seconds |-> 0, max_papers |-> 120],
      [max_retries |-> single_max_retries, max_duration_seconds |-> 1, max_papers |-> 4] }
PaperCounts == {0, 3, 5, 20}
ConfLevels == {2, 4, 6}
\* (patterns, research_gaps) counts of the syntheses the model lets the LLM return
SynthesisOutcomes == {<<0, 0>>, <<1, 0>>, <<2, 0>>, <<0, 1>>, <<2, 1>>}
ExceptionTexts == {"connection timed out", "Rate Limit exceeded"}

\* ---------------------------------------------------------------- helpers
Min(a, b) == IF a < b THEN a ELSE b

RECURSIVE SumConf(_)
SumConf(hs) == IF hs = <<>> THEN 0 ELSE Head(hs).confidence_score + SumConf(Tail(hs))

RECURSIVE FilterSeq(_, _)
FilterSeq(s, lo) ==
    IF s = <<>> THEN <<>>
    ELSE IF Head(s) >= lo THEN <<Head(s)>> \o FilterSeq(Tail(s), lo)
    ELSE FilterSeq(Tail(s), lo)

\* insert x into a descending sequence behind the elements that are >= x (stable)
RECURSIVE InsertDesc(_, _)
InsertDesc(s, x) ==
    IF s = <<>> THEN <<x>>
    ELSE IF Head(s) >= x THEN <<Head(s)>> \o InsertDesc(Tail(s), x)
    ELSE <<x>> \o s

RECURSIVE SortDesc(_)
SortDesc(s) == IF s = <<>> THEN <<>> ELSE InsertDesc(SortDesc(SubSeq(s, 1, Len(s) - 1)), s[Len(s)])

Prefix(s, n) == SubSeq(s, 1, Min(n, Len(s)))

RawHypotheses == UNION {[1..n -> ConfLevels] : n \in 0..MaxHyps}

\* ---------------------------------------------------------------- state_management.py
\* seeded fault: the new entry replaces the log
add_error_replacing(agent, msg, detail) ==
    <<[agent |-> agent, msg |-> msg, detail |-> detail]>>

\* add_error: the entry that is appended, tagged with the current agent
add_error(agent, msg, detail) == Append(errors, [agent |-> agent, msg |-> msg, detail |-> detail])

\* is_workflow_complete, on the values the supervisor node returns
is_workflow_complete(st, sc) == st = COMPLETED \/ st = FAILED \/ ~sc

\* ---------------------------------------------------------------- supervisor.py
\* str.lower() on the exception texts the model draws
lower(s) == IF s = "Rate Limit exceeded" THEN "rate limit exceeded" ELSE s

critical_patterns == <<"api key", "rate limit", "authentication", "unauthorized", "quota exceeded">>

\* `pattern in error_lower` on the lowered texts
Contains(s, p) == <<s, p>> \in {<<"rate limit exceeded", "rate limit">>}

\* seeded fault: the patterns are matched against the message as logged, not lowered
has_critical_errors_cased ==
    \E i \in DOMAIN errors : \E j \in DOMAIN critical_patterns :
        Contains(errors[i].detail, critical_patterns[j])

has_critical_errors ==
    \E i \in DOMAIN errors : \E j \in DOMAIN critical_patterns :
        Contains(lower(errors[i].detail), critical_patterns[j])

\* seeded fault: the budget is read as minutes against a clock in seconds
timeout_exceeded_in_minutes ==
    max_duration_seconds # 0 /\ elapsed > max_duration_seconds * 60

timeout_exceeded == max_duration_seconds # 0 /\ elapsed > max_duration_seconds

\* seeded fault: the error count is not part of the termination check
should_terminate_no_max_errors ==
    \/ ~should_continue
    \/ status = COMPLETED
    \/ timeout_exceeded

should_terminate ==
    \/ ~should_continue
    \/ status = COMPLETED
    \/ Len(errors) >= max_errors
    \/ timeout_exceeded

Decision(agent, cont, reason) == [next_agent |-> agent, should_continue |-> cont, reason |-> reason]

\* a handler's result: the decision and the fields the handler wrote on the way
Effect(d, rc, mp, syn) == [decision |-> d, retry_counts |-> rc, max_papers |-> mp, synthesis |-> syn]
Pure(d) == Effect(d, retry_counts, max_papers, synthesis)

\* seeded fault: the retry test is off by one
handle_search_results_one_more ==
    IF papers >= min_papers
    THEN Pure(Decision(KNOWLEDGE_SYNTHESIZER, TRUE, "Sufficient papers found"))
    ELSE IF retry_counts[LITERATURE_HUNTER] <= max_retries[LITERATURE_HUNTER]
    THEN Effect(Decision(LITERATURE_HUNTER, TRUE, "Retrying search with expanded parameters"),
                [retry_counts EXCEPT ![LITERATURE_HUNTER] = @ + 1],
                Min(max_papers * 2, max_papers_cap),
                synthesis)
    ELSE IF papers > 0
    THEN Pure(Decision(KNOWLEDGE_SYNTHESIZER, TRUE, "Proceeding with papers after max retries"))
    ELSE Pure(Decision(None, FALSE, "No papers found after maximum retries"))

\* seeded fault: after the last retry the synthesis is routed to whatever was found
handle_search_results_proceeding ==
    IF papers >= min_papers
    THEN Pure(Decision(KNOWLEDGE_SYNTHESIZER, TRUE, "Sufficient papers found"))
    ELSE IF retry_counts[LITERATURE_HUNTER] < max_retries[LITERATURE_HUNTER]
    THEN Effect(Decision(LITERATURE_HUNTER, TRUE, "Retrying search with expanded parameters"),
                [retry_counts EXCEPT ![LITERATURE_HUNTER] = @ + 1],
                Min(max_papers * 2, max_papers_cap),
                synthesis)
    ELSE Pure(Decision(KNOWLEDGE_SYNTHESIZER, TRUE, "Proceeding with papers after max retries"))

handle_search_results ==
    IF papers >= min_papers
    THEN Pure(Decision(KNOWLEDGE_SYNTHESIZER, TRUE, "Sufficient papers found"))
    ELSE IF retry_counts[LITERATURE_HUNTER] < max_retries[LITERATURE_HUNTER]
    THEN Effect(Decision(LITERATURE_HUNTER, TRUE, "Retrying search with expanded parameters"),
                [retry_counts EXCEPT ![LITERATURE_HUNTER] = @ + 1],
                Min(max_papers * 2, max_papers_cap),
                synthesis)
    ELSE IF papers > 0
    THEN Pure(Decision(KNOWLEDGE_SYNTHESIZER, TRUE, "Proceeding with papers after max retries"))
    ELSE Pure(Decision(None, FALSE, "No papers found after maximum retries"))

\* a synthesis is its pattern, gap and finding counts; a generated synthesis is
\* taken with one finding (no guard reads the findings)
NoSynthesis == [present |-> FALSE, patterns |-> 0, research_gaps |-> 0, key_findings |-> 0]
MinimalSynthesis == [present |-> TRUE, patterns |-> 0, research_gaps |-> 1, key_findings |-> 1]
\* the Synthesis the synthesizer stores in its except branch
FailedSynthesis == [present |-> TRUE, patterns |-> 0, research_gaps |-> 1, key_findings |-> 1]

\* seeded fault: a paper count equal to the bound still counts as too few
handle_synthesis_results_inclusive ==
    IF ~synthesis.present
    THEN IF retry_counts[KNOWLEDGE_SYNTHESIZER] < max_retries[KNOWLEDGE_SYNTHESIZER]
         THEN Effect(Decision(KNOWLEDGE_SYNTHESIZER, TRUE, "Retrying synthesis"),
                     [retry_counts EXCEPT ![KNOWLEDGE_SYNTHESIZER] = @ + 1],
                     max_papers, synthesis)
         ELSE Effect(Decision(HYPOTHESIS_GENERATOR, TRUE, "Proceeding with minimal synthesis after retries"),
                     retry_counts, max_papers, MinimalSynthesis)
    ELSE IF synthesis.patterns >= min_patterns \/ synthesis.research_gaps > 0
    THEN Pure(Decision(HYPOTHESIS_GENERATOR, TRUE, "Good synthesis"))
    ELSE IF papers <= poor_synthesis_paper_bound
    THEN Effect(Decision(LITERATURE_HUNTER, TRUE, "Poor synthesis - getting more papers"),
                retry_counts, poor_synthesis_max_papers, synthesis)
    ELSE Pure(Decision(HYPOTHESIS_GENERATOR, TRUE, "Proceeding with limited synthesis"))

\* seeded fault: the return to the search gives the search its retries back
handle_synthesis_results_resetting ==
    IF ~synthesis.present
    THEN IF retry_counts[KNOWLEDGE_SYNTHESIZER] < max_retries[KNOWLEDGE_SYNTHESIZER]
         THEN Effect(Decision(KNOWLEDGE_SYNTHESIZER, TRUE, "Retrying synthesis"),
                     [retry_counts EXCEPT ![KNOWLEDGE_SYNTHESIZER] = @ + 1],
                     max_papers, synthesis)
         ELSE Effect(Decision(HYPOTHESIS_GENERATOR, TRUE, "Proceeding with minimal synthesis after retries"),
                     retry_counts, max_papers, MinimalSynthesis)
    ELSE IF synthesis.patterns >= min_patterns \/ synthesis.research_gaps > 0
    THEN Pure(Decision(HYPOTHESIS_GENERATOR, TRUE, "Good synthesis"))
    ELSE IF papers < poor_synthesis_paper_bound
    THEN Effect(Decision(LITERATURE_HUNTER, TRUE, "Poor synthesis - getting more papers"),
                [retry_counts EXCEPT ![LITERATURE_HUNTER] = 0],
                poor_synthesis_max_papers, synthesis)
    ELSE Pure(Decision(HYPOTHESIS_GENERATOR, TRUE, "Proceeding with limited synthesis"))

\* seeded fault: one pattern is enough for a good synthesis
handle_synthesis_results_any_pattern ==
    IF ~synthesis.present
    THEN IF retry_counts[KNOWLEDGE_SYNTHESIZER] < max_retries[KNOWLEDGE_SYNTHESIZER]
         THEN Effect(Decision(KNOWLEDGE_SYNTHESIZER, TRUE, "Retrying synthesis"),
                     [retry_counts EXCEPT ![KNOWLEDGE_SYNTHESIZER] = @ + 1],
                     max_papers, synthesis)
         ELSE Effect(Decision(HYPOTHESIS_GENERATOR, TRUE, "Proceeding with minimal synthesis after retries"),
                     retry_counts, max_papers, MinimalSynthesis)
    ELSE IF synthesis.patterns > 0 \/ synthesis.research_gaps > 0
    THEN Pure(Decision(HYPOTHESIS_GENERATOR, TRUE, "Good synthesis"))
    ELSE IF papers < poor_synthesis_paper_bound
    THEN Effect(Decision(LITERATURE_HUNTER, TRUE, "Poor synthesis - getting more papers"),
                retry_counts, poor_synthesis_max_papers, synthesis)
    ELSE Pure(Decision(HYPOTHESIS_GENERATOR, TRUE, "Proceeding with limited synthesis"))

\* seeded fault: a synthesis retry is not counted
handle_synthesis_results_uncounted ==
    IF ~synthesis.present
    THEN IF retry_counts[KNOWLEDGE_SYNTHESIZER] < max_retries[KNOWLEDGE_SYNTHESIZER]
         THEN Pure(Decision(KNOWLEDGE_SYNTHESIZER, TRUE, "Retrying synthesis"))
         ELSE Effect(Decision(HYPOTHESIS_GENERATOR, TRUE, "Proceeding with minimal synthesis after retries"),
                     retry_counts, max_papers, MinimalSynthesis)
    ELSE IF synthesis.patterns >= min_patterns \/ synthesis.research_gaps > 0
    THEN Pure(Decision(HYPOTHESIS_GENERATOR, TRUE, "Good synthesis"))
    ELSE IF papers < poor_synthesis_paper_bound
    THEN Effect(Decision(LITERATURE_HUNTER, TRUE, "Poor synthesis - getting more papers"),
                retry_counts, poor_synthesis_max_papers, synthesis)
    ELSE Pure(Decision(HYPOTHESIS_GENERATOR, TRUE, "Proceeding with limited synthesis"))

handle_synthesis_results ==
    IF ~synthesis.present
    THEN IF retry_counts[KNOWLEDGE_SYNTHESIZER] < max_retries[KNOWLEDGE_SYNTHESIZER]
         THEN Effect(Decision(KNOWLEDGE_SYNTHESIZER, TRUE, "Retrying synthesis"),
                     [retry_counts EXCEPT ![KNOWLEDGE_SYNTHESIZER] = @ + 1],
                     max_papers, synthesis)
         ELSE Effect(Decision(HYPOTHESIS_GENERATOR, TRUE, "Proceeding with minimal synthesis after retries"),
                     retry_counts, max_papers, MinimalSynthesis)
    ELSE IF synthesis.patterns >= min_patterns \/ synthesis.research_gaps > 0
    THEN Pure(Decision(HYPOTHESIS_GENERATOR, TRUE, "Good synthesis"))
    ELSE IF papers < poor_synthesis_paper_bound
    THEN Effect(Decision(LITERATURE_HUNTER, TRUE, "Poor synthesis - getting more papers"),
                retry_counts, poor_synthesis_max_papers, synthesis)
    ELSE Pure(Decision(HYPOTHESIS_GENERATOR, TRUE, "Proceeding with limited synthesis"))

validate_hypotheses_quality(hs) ==
    IF Len(hs) < min_hypotheses THEN FALSE
    ELSE SumConf(hs) >= min_confidence * Len(hs)     \* sum/len >= min_confidence

\* seeded fault: the hypotheses go to the methodology design unchecked
handle_generation_phase_unchecked ==
    IF hypotheses = <<>>
    THEN Pure(Decision(HYPOTHESIS_GENERATOR, TRUE, "Generating hypotheses"))
    ELSE IF methodologies = <<>>
    THEN Pure(Decision(METHODOLOGY_DESIGNER, TRUE, "Designing methodologies"))
    ELSE Pure(Decision(VALIDATION, TRUE, "Moving to validation phase"))

handle_generation_phase ==
    IF hypotheses = <<>>
    THEN Pure(Decision(HYPOTHESIS_GENERATOR, TRUE, "Generating hypotheses"))
    ELSE IF methodologies = <<>>
    THEN IF /\ ~validate_hypotheses_quality(hypotheses)
            /\ retry_counts[HYPOTHESIS_GENERATOR] < max_retries[HYPOTHESIS_GENERATOR]
         THEN Effect(Decision(HYPOTHESIS_GENERATOR, TRUE, "Regenerating higher quality hypotheses"),
                     [retry_counts EXCEPT ![HYPOTHESIS_GENERATOR] = @ + 1],
                     max_papers, synthesis)
         ELSE Pure(Decision(METHODOLOGY_DESIGNER, TRUE, "Designing methodologies"))
    ELSE Pure(Decision(VALIDATION, TRUE, "Moving to validation phase"))

handle_validation_results ==
    IF validation_results # <<>>
    THEN Pure(Decision(None, FALSE, "Workflow complete"))
    ELSE Pure(Decision(None, FALSE, "Validation completed but no results generated"))

make_routing_decision ==
    CASE status = INITIALIZED -> Pure(Decision(LITERATURE_HUNTER, TRUE, "Starting workflow with literature search"))
      [] status = SEARCHING -> handle_search_results
      [] status = SYNTHESIZING -> handle_synthesis_results
      [] status = GENERATING -> handle_generation_phase
      [] status = VALIDATING -> handle_validation_results
      [] status \in {COMPLETED, FAILED} -> Pure(Decision(None, FALSE, "Workflow ended"))
      [] OTHER -> Pure(Decision(None, FALSE, "Unknown workflow status"))

status_map(agent) ==
    CASE agent = LITERATURE_HUNTER -> SEARCHING
      [] agent = KNOWLEDGE_SYNTHESIZER -> SYNTHESIZING
      [] agent = HYPOTHESIS_GENERATOR -> GENERATING
      [] agent = METHODOLOGY_DESIGNER -> GENERATING
      [] agent = VALIDATION -> VALIDATING
      [] OTHER -> status

\* seeded fault: the final status is taken from the verdicts
handle_termination_by_verdict ==
    [status |-> IF \E i \in DOMAIN validation_results : validation_results[i].is_valid
                THEN COMPLETED ELSE FAILED,
     current_agent |-> SUPERVISOR,
     should_continue |-> FALSE]

\* the control fields after _handle_termination
handle_termination ==
    [status |-> IF status \notin {COMPLETED, FAILED}
                THEN (IF validation_results # <<>> THEN COMPLETED ELSE FAILED)
                ELSE status,
     current_agent |-> IF status \notin {COMPLETED, FAILED} THEN SUPERVISOR ELSE current_agent,
     should_continue |-> FALSE]

\* the control fields after _handle_critical_errors
handle_critical_errors ==
    [status |-> FAILED, current_agent |-> SUPERVISOR, should_continue |-> FALSE]

\* the control fields after _apply_decision
apply_decision(d) ==
    [status |-> IF d.next_agent # None THEN status_map(d.next_agent) ELSE status,
     current_agent |-> IF d.next_agent # None THEN d.next_agent ELSE current_agent,
     should_continue |-> d.should_continue]

\* SupervisorAgent.reset_retry_counts(workflow_id), called on a finished run:
\* the workflow's entry is deleted, every later read of a counter gives 0
reset_retry_counts ==
    /\ pc = "end"
    /\ retry_counts # [a \in Workers |-> 0]
    /\ retry_counts' = [a \in Workers |-> 0]
    /\ UNCHANGED <<status, current_agent, should_continue, max_papers, papers, synthesis,
                   hypotheses, methodologies, validation_results, errors, last_decision,
                   max_retries, max_duration_seconds, elapsed, pc, ran,
                   graph_state, graph_pc, instances, shared_retry_counts,
          strategies, candidates, search_result, search_pc, search_max_papers, detection>>

\* ---------------------------------------------------------------- orchestrator
\* seeded fault: the edge routes on current_agent alone
route_from_supervisor_agent_only(st, agent, sc) ==
    IF agent \in Workers THEN agent ELSE "end"

route_from_supervisor(st, agent, sc) ==
    IF ~sc THEN "end"
    ELSE IF is_workflow_complete(st, sc) THEN "end"
    ELSE IF agent \in Workers THEN agent
    ELSE "end"

\* SupervisorAgent.process. Its except branch (lines 95-100) is not taken: with
\* every max_retries and quality_thresholds key configured and a well-formed
\* started_at, no statement of the try block raises.
process ==
    IF should_terminate
    THEN /\ status' = handle_termination.status
         /\ current_agent' = handle_termination.current_agent
         /\ should_continue' = handle_termination.should_continue
         /\ UNCHANGED <<retry_counts, max_papers, synthesis, last_decision>>
    ELSE IF has_critical_errors
    THEN /\ status' = handle_critical_errors.status
         /\ current_agent' = handle_critical_errors.current_agent
         /\ should_continue' = handle_critical_errors.should_continue
         /\ UNCHANGED <<retry_counts, max_papers, synthesis, last_decision>>
    ELSE LET e == make_routing_decision
             c == apply_decision(e.decision)
         IN /\ retry_counts' = e.retry_counts
            /\ max_papers' = e.max_papers
            /\ synthesis' = e.synthesis
            /\ status' = c.status
            /\ current_agent' = c.current_agent
            /\ should_continue' = c.should_continue
            /\ last_decision' = e.decision

supervisor_frame == <<papers, hypotheses, methodologies, validation_results, errors,
                      max_retries, max_duration_seconds, elapsed, ran,
                      graph_state, graph_pc, instances, shared_retry_counts,
          strategies, candidates, search_result, search_pc, search_max_papers, detection>>

\* the supervisor node followed by the conditional edge out of it
supervisor_node ==
    /\ pc = "supervisor"
    /\ process
    /\ pc' = route_from_supervisor(status', current_agent', should_continue')
    /\ UNCHANGED supervisor_frame

\* SupervisorAgent.process called again on the state a finished run returned
supervisor_recall ==
    /\ pc = "end"
    /\ process
    /\ pc' = "end"
    /\ UNCHANGED supervisor_frame

\* ---------------------------------------------------------------- workers
\* seeded fault: the stages are chained, the search feeds the synthesis directly
worker_edge_chained(node) ==
    IF node = LITERATURE_HUNTER THEN KNOWLEDGE_SYNTHESIZER ELSE "supervisor"

\* workflow.add_edge(<worker>, "supervisor")
worker_edge(node) == "supervisor"

worker_frame == <<last_decision, retry_counts, max_retries, max_duration_seconds, elapsed,
                  graph_state, graph_pc, instances, shared_retry_counts,
          strategies, candidates, search_result, search_pc, search_max_papers, detection>>

\* bookkeeping of the outcomes: "never" ran, "all_failed" so far, "some_ok"
Ok(a) == [ran EXCEPT ![a] = "some_ok"]
Fail(a) == [ran EXCEPT ![a] = IF @ = "never" THEN "all_failed" ELSE @]

literature_hunter_node ==
    /\ pc = LITERATURE_HUNTER
    /\ pc' = worker_edge(LITERATURE_HUNTER)
    /\ status' = SEARCHING
    /\ current_agent' = LITERATURE_HUNTER
    /\ \/ \E n \in PaperCounts :
            /\ n <= max_papers
            /\ papers' = n
            /\ ran' = Ok(LITERATURE_HUNTER)
            /\ UNCHANGED <<errors, should_continue>>
       \/ \E x \in ExceptionTexts :
            /\ errors' = add_error(LITERATURE_HUNTER, "Literature search failed", x)
            /\ should_continue' = FALSE
            /\ ran' = Fail(LITERATURE_HUNTER)
            /\ UNCHANGED papers
    /\ UNCHANGED <<max_papers, synthesis, hypotheses, methodologies, validation_results>>
    /\ UNCHANGED worker_frame

knowledge_synthesizer_node ==
    /\ pc = KNOWLEDGE_SYNTHESIZER
    /\ pc' = worker_edge(KNOWLEDGE_SYNTHESIZER)
    /\ IF papers = 0
       THEN \* ValueError before the status update
            /\ errors' = add_error(current_agent, "Synthesis failed", "No papers available for synthesis")
            /\ synthesis' = FailedSynthesis
            /\ ran' = Fail(KNOWLEDGE_SYNTHESIZER)
            /\ UNCHANGED <<status, current_agent>>
       ELSE /\ status' = SYNTHESIZING
            /\ current_agent' = KNOWLEDGE_SYNTHESIZER
            /\ \/ \E o \in SynthesisOutcomes :
                    /\ synthesis' = [present |-> TRUE, patterns |-> o[1], research_gaps |-> o[2],
                                     key_findings |-> 1]
                    /\ ran' = Ok(KNOWLEDGE_SYNTHESIZER)
                    /\ UNCHANGED errors
               \/ \E x \in ExceptionTexts :
                    /\ errors' = add_error(KNOWLEDGE_SYNTHESIZER, "Synthesis failed", x)
                    /\ synthesis' = FailedSynthesis
                    /\ ran' = Fail(KNOWLEDGE_SYNTHESIZER)
    /\ UNCHANGED <<should_continue, max_papers, papers, hypotheses, methodologies,
                   validation_results>>
    /\ UNCHANGED worker_frame

\* _filter_hypotheses on the confidences of the generated hypotheses
filter_hypotheses(raw) == Prefix(SortDesc(FilterSeq(raw, filter_min_confidence)), max_hypotheses_kept)

\* the ids the state still refers to once state["hypotheses"] is overwritten
UsedIds ==
    {methodologies[i] : i \in DOMAIN methodologies}
        \cup {validation_results[i].hypothesis_id : i \in DOMAIN validation_results}

RECURSIVE Fresh(_, _, _)
\* uuid4: k ids that differ from each other and from every id in use
Fresh(k, from, used) ==
    IF k = 0 THEN <<>>
    ELSE IF from \in used THEN Fresh(k, from + 1, used)
    ELSE <<from>> \o Fresh(k - 1, from + 1, used)

\* the Hypothesis objects stored for the kept confidences, with fresh ids
NewHypotheses(kept) ==
    [i \in 1..Len(kept) |-> [id |-> Fresh(Len(kept), 1, UsedIds)[i], confidence_score |-> kept[i]]]

hypothesis_generator_node ==
    /\ pc = HYPOTHESIS_GENERATOR
    /\ pc' = worker_edge(HYPOTHESIS_GENERATOR)
    /\ IF ~synthesis.present
       THEN \* ValueError before the status update
            /\ errors' = add_error(current_agent, "Hypothesis generation failed",
                                   "No synthesis available for hypothesis generation")
            /\ hypotheses' = NewHypotheses(<<fallback_confidence>>)
            /\ ran' = Fail(HYPOTHESIS_GENERATOR)
            /\ UNCHANGED <<status, current_agent>>
       ELSE /\ status' = GENERATING
            /\ current_agent' = HYPOTHESIS_GENERATOR
            /\ \/ \E raw \in RawHypotheses :
                    /\ hypotheses' = NewHypotheses(filter_hypotheses(raw))
                    /\ ran' = Ok(HYPOTHESIS_GENERATOR)
                    /\ UNCHANGED errors
               \/ \E x \in ExceptionTexts :
                    /\ errors' = add_error(HYPOTHESIS_GENERATOR, "Hypothesis generation failed", x)
                    /\ hypotheses' = NewHypotheses(<<fallback_confidence>>)
                            /\ ran' = Fail(HYPOTHESIS_GENERATOR)
    /\ UNCHANGED <<should_continue, max_papers, papers, synthesis, methodologies,
                   validation_results>>
    /\ UNCHANGED worker_frame

\* the fallback methodology list of the except branch
\* seeded fault: the fallback methodology names no hypothesis of the state
fallback_methodologies_unpaired == IF hypotheses # <<>> THEN <<0>> ELSE <<>>

fallback_methodologies == IF hypotheses # <<>> THEN <<hypotheses[1].id>> ELSE <<>>

methodology_designer_node ==
    /\ pc = METHODOLOGY_DESIGNER
    /\ pc' = worker_edge(METHODOLOGY_DESIGNER)
    /\ IF hypotheses = <<>>
       THEN \* ValueError before the status update
            /\ errors' = add_error(current_agent, "Methodology design failed",
                                   "No hypotheses available for methodology design")
            /\ methodologies' = fallback_methodologies
            /\ ran' = Fail(METHODOLOGY_DESIGNER)
            /\ UNCHANGED <<status, current_agent>>
       ELSE /\ status' = GENERATING
            /\ current_agent' = METHODOLOGY_DESIGNER
            /\ \/ /\ methodologies' = [i \in 1..Min(max_methodologies, Len(hypotheses)) |-> hypotheses[i].id]
                  /\ ran' = Ok(METHODOLOGY_DESIGNER)
                  /\ UNCHANGED errors
               \/ \E x \in ExceptionTexts :
                    /\ errors' = add_error(METHODOLOGY_DESIGNER, "Methodology design failed", x)
                    /\ methodologies' = fallback_methodologies
                    /\ ran' = Fail(METHODOLOGY_DESIGNER)
    /\ UNCHANGED <<should_continue, max_papers, papers, synthesis, hypotheses,
                   validation_results>>
    /\ UNCHANGED worker_frame

\* _find_methodology(hypothesis_id, methodologies) is not None
find_methodology(hid) == \E i \in DOMAIN methodologies : methodologies[i] = hid

RECURSIVE Validated(_)
\* the hypotheses that have a methodology, in order
Validated(hs) ==
    IF hs = <<>> THEN <<>>
    ELSE IF find_methodology(Head(hs).id) THEN <<Head(hs).id>> \o Validated(Tail(hs))
    ELSE Validated(Tail(hs))

\* the fallback validation list of the except branch
fallback_validation ==
    IF hypotheses # <<>> THEN <<[hypothesis_id |-> hypotheses[1].id, is_valid |-> TRUE]>>
    ELSE validation_results

validation_node ==
    /\ pc = VALIDATION
    /\ pc' = worker_edge(VALIDATION)
    /\ IF hypotheses = <<>> \/ methodologies = <<>>
       THEN \* ValueError before the status update
            /\ errors' = add_error(current_agent, "Validation failed",
                                   "Missing hypotheses or methodologies for validation")
            /\ validation_results' = fallback_validation
            /\ should_continue' = FALSE
            /\ ran' = Fail(VALIDATION)
            /\ UNCHANGED <<status, current_agent>>
       ELSE \/ \E verdict \in [1..Len(Validated(hypotheses)) -> BOOLEAN] :
                 /\ validation_results' =
                        [i \in 1..Len(Validated(hypotheses)) |->
                            [hypothesis_id |-> Validated(hypotheses)[i], is_valid |-> verdict[i]]]
                 /\ should_continue' = FALSE
                 /\ status' = COMPLETED
                 /\ current_agent' = VALIDATION
                 /\ ran' = Ok(VALIDATION)
                 /\ UNCHANGED errors
            \/ \E x \in ExceptionTexts :
                 /\ status' = VALIDATING
                 /\ current_agent' = VALIDATION
                 /\ errors' = add_error(VALIDATION, "Validation failed", x)
                 /\ validation_results' = fallback_validation
                 /\ should_continue' = FALSE
                 /\ ran' = Fail(VALIDATION)
    /\ UNCHANGED <<max_papers, papers, synthesis, hypotheses, methodologies>>
    /\ UNCHANGED worker_frame

\* ---------------------------------------------------------------- clock
\* wall-clock time passes between any two steps
tick ==
    /\ max_duration_seconds # 0      \* the clock is read only when a budget is configured
    /\ elapsed < MaxElapsed
    /\ elapsed' = elapsed + 1
    /\ UNCHANGED <<status, current_agent, should_continue, max_papers, papers, synthesis,
                   hypotheses, methodologies, validation_results, errors, last_decision,
                   retry_counts, max_retries, max_duration_seconds, pc, ran,
                   graph_state, graph_pc, instances, shared_retry_counts,
          strategies, candidates, search_result, search_pc, search_max_papers, detection>>

\* ---------------------------------------------------------------- agent/graph.py
\* the supervisor iterations of the LangGraph pipeline that are explored
MaxIteration == 6

\* WorkflowLimits.max_workflow_iterations, at its default
max_workflow_iterations == 5

GraphWorkers == {"literature_hunter", "synthesizer", "hypothesis_generator", "validator"}

\* what the generative call can put into SupervisorDecision.next_agent, a free
\* string: the five documented values and one that is none of them
GraphDecisions == GraphWorkers \cup {"end", "planner"}

GraphPaperCounts == {0, 2}
GraphHypothesisCounts == {0, 1, 3}
max_hypotheses_to_validate == 2

\* the state examples/cli_research.py hands to graph.ainvoke, reduced to the
\* fields the nodes and the routing read: list fields are their lengths, the
\* synthesis is whether it is set
GraphInitialState ==
    [iteration |-> 0, next_agent |-> None, should_continue |-> TRUE,
     papers |-> 0, synthesis |-> FALSE, hypotheses |-> 0, validation_results |-> 0,
     errors |-> <<>>, workflow_complete |-> FALSE]

\* StateValidator
get_iteration(state) == state.iteration
get_errors(state) == state.errors

\* the reducer of Annotated[list, operator.add]: the channel's value followed by
\* the value the node returned
operator_add(current, update) == current \o update

\* the "errors" value of the three _build_*_error_state updates
error_update(state, error_message) == get_errors(state) \o <<error_message>>

\* the state once the update of _build_synthesis_error_state is merged
build_synthesis_error_state(state, error_message) ==
    [state EXCEPT !.synthesis = FALSE,
                  !.errors = operator_add(@, error_update(state, error_message))]

\* seeded fault: the hypothesis error update also empties the paper list
build_hypothesis_error_state_clearing(state, error_message) ==
    [state EXCEPT !.hypotheses = 0,
                  !.papers = 0,
                  !.errors = operator_add(@, error_update(state, error_message))]

\* the state once the update of _build_hypothesis_error_state is merged
build_hypothesis_error_state(state, error_message) ==
    [state EXCEPT !.hypotheses = 0,
                  !.errors = operator_add(@, error_update(state, error_message))]

\* the state once the update of _build_validation_error_state is merged
build_validation_error_state(state, error_message) ==
    [state EXCEPT !.validation_results = 0,
                  !.workflow_complete = TRUE,
                  !.errors = operator_add(@, error_update(state, error_message))]

\* seeded fault: the update carries the iteration it has read
build_supervisor_state_update_stale(state, next_agent, cont) ==
    [state EXCEPT !.next_agent = next_agent,
                  !.should_continue = cont,
                  !.iteration = get_iteration(state)]

build_supervisor_state_update(state, next_agent, cont) ==
    [state EXCEPT !.next_agent = next_agent,
                  !.should_continue = cont,
                  !.iteration = get_iteration(state) + 1]

route_supervisor(state) ==
    IF ~state.should_continue \/ state.next_agent = "end" THEN "end"
    ELSE IF state.next_agent \in GraphWorkers THEN state.next_agent
    ELSE "end"

\* graph_builder.add_edge(<worker>, "supervisor")
graph_edge(node) == "supervisor"

\* the fields of the other pipeline, which a node of this one cannot reach
graph_frame == <<status, current_agent, should_continue, max_papers, papers, synthesis,
                 hypotheses, methodologies, validation_results, errors, last_decision,
                 retry_counts, max_retries, max_duration_seconds, elapsed, pc, ran,
                 instances, shared_retry_counts,
                 strategies, candidates, search_result, search_pc, search_max_papers, detection>>

\* an exception of the generative call leaves the node and ends the run
graph_raise ==
    /\ graph_pc' = "raised"
    /\ UNCHANGED graph_state

graph_supervisor ==
    /\ graph_pc = "supervisor"
    /\ get_iteration(graph_state) < MaxIteration
    /\ \/ \E next_agent \in GraphDecisions, cont \in BOOLEAN :
            /\ graph_state' = build_supervisor_state_update(graph_state, next_agent, cont)
            /\ graph_pc' = route_supervisor(graph_state')
       \/ graph_raise
    /\ UNCHANGED graph_frame

graph_literature_hunter ==
    /\ graph_pc = "literature_hunter"
    /\ \/ \E n \in GraphPaperCounts :
            /\ graph_state' = [graph_state EXCEPT !.papers = n]
            /\ graph_pc' = graph_edge("literature_hunter")
       \/ graph_raise
    /\ UNCHANGED graph_frame

graph_synthesizer ==
    /\ graph_pc = "synthesizer"
    /\ IF graph_state.papers = 0
       THEN /\ graph_state' = build_synthesis_error_state(graph_state,
                                                           "No papers available for synthesis")
            /\ graph_pc' = graph_edge("synthesizer")
       ELSE \/ /\ graph_state' = [graph_state EXCEPT !.synthesis = TRUE]
               /\ graph_pc' = graph_edge("synthesizer")
            \/ graph_raise
    /\ UNCHANGED graph_frame

graph_hypothesis_generator ==
    /\ graph_pc = "hypothesis_generator"
    /\ IF ~graph_state.synthesis
       THEN /\ graph_state' =
                build_hypothesis_error_state(graph_state,
                                             "No synthesis available for hypothesis generation")
            /\ graph_pc' = graph_edge("hypothesis_generator")
       ELSE \/ \E n \in GraphHypothesisCounts :
                 /\ graph_state' = [graph_state EXCEPT !.hypotheses = n]
                 /\ graph_pc' = graph_edge("hypothesis_generator")
            \/ graph_raise
    /\ UNCHANGED graph_frame

graph_validator ==
    /\ graph_pc = "validator"
    /\ IF graph_state.hypotheses = 0
       THEN /\ graph_state' = build_validation_error_state(graph_state,
                                                            "No hypotheses to validate")
            /\ graph_pc' = graph_edge("validator")
       ELSE \/ /\ graph_state' =
                    [graph_state EXCEPT
                        !.validation_results = Min(graph_state.hypotheses,
                                                   max_hypotheses_to_validate),
                        !.workflow_complete = TRUE]
               /\ graph_pc' = graph_edge("validator")
            \/ graph_raise
    /\ UNCHANGED graph_frame

\* the pipeline is not running
GraphIdle == graph_pc = "idle" /\ graph_state = GraphInitialState

\* ---------------------------------------------------------------- one supervisor, several workflows
\* the workflow_id values of the runs that share the supervisor
WorkflowIds == {"w1", "w2"}

InstancePaperCounts == {0, 3, 5}
InstanceSyntheses == {[present |-> TRUE, patterns |-> 0, research_gaps |-> 0, key_findings |-> 1],
                      [present |-> TRUE, patterns |-> 2, research_gaps |-> 1, key_findings |-> 1]}
InstanceHypotheses == {<<>>, <<[confidence_score |-> 4]>>, <<[confidence_score |-> 6]>>}

\* create_initial_state, the fields the counter-writing handlers read, and the
\* node the instance's driver runs next
InitialInstance ==
    [status |-> INITIALIZED, papers |-> 0, synthesis |-> NoSynthesis, hypotheses |-> <<>>,
     pc |-> "supervisor"]

\* self.retry_counts[workflow_id].get(agent, 0)
current_retries(table, workflow_id, agent) == table[workflow_id][agent]

\* seeded fault: the counter is keyed by the stage alone
write_retry_by_stage(table, workflow_id, agent) ==
    [w \in WorkflowIds |-> [table[w] EXCEPT ![agent] = @ + 1]]

\* self.retry_counts[state['workflow_id']][agent] = current_retries + 1
write_retry(table, workflow_id, agent) ==
    [table EXCEPT ![workflow_id][agent] = current_retries(table, workflow_id, agent) + 1]

\* a decision of the shared supervisor: the next agent and the stage whose
\* counter the handler increments on the way (None: no counter is written)
Routed(agent, retried) == [next_agent |-> agent, retried |-> retried]

\* seeded fault: the search is retried once more when its counter is at the maximum
routing_decision_for_one_more(s, table, w) ==
    CASE s.status = INITIALIZED -> Routed(LITERATURE_HUNTER, None)
      [] s.status = SEARCHING ->
            IF s.papers >= min_papers THEN Routed(KNOWLEDGE_SYNTHESIZER, None)
            ELSE IF current_retries(table, w, LITERATURE_HUNTER) <= default_max_retries[LITERATURE_HUNTER]
            THEN Routed(LITERATURE_HUNTER, LITERATURE_HUNTER)
            ELSE IF s.papers > 0 THEN Routed(KNOWLEDGE_SYNTHESIZER, None)
            ELSE Routed(None, None)
      [] s.status = SYNTHESIZING ->
            IF ~s.synthesis.present
            THEN IF current_retries(table, w, KNOWLEDGE_SYNTHESIZER) < default_max_retries[KNOWLEDGE_SYNTHESIZER]
                 THEN Routed(KNOWLEDGE_SYNTHESIZER, KNOWLEDGE_SYNTHESIZER)
                 ELSE Routed(HYPOTHESIS_GENERATOR, None)
            ELSE IF s.synthesis.patterns >= min_patterns \/ s.synthesis.research_gaps > 0
            THEN Routed(HYPOTHESIS_GENERATOR, None)
            ELSE IF s.papers < poor_synthesis_paper_bound THEN Routed(LITERATURE_HUNTER, None)
            ELSE Routed(HYPOTHESIS_GENERATOR, None)
      [] s.status = GENERATING ->
            IF s.hypotheses = <<>> THEN Routed(HYPOTHESIS_GENERATOR, None)
            ELSE IF /\ ~validate_hypotheses_quality(s.hypotheses)
                    /\ current_retries(table, w, HYPOTHESIS_GENERATOR) < default_max_retries[HYPOTHESIS_GENERATOR]
            THEN Routed(HYPOTHESIS_GENERATOR, HYPOTHESIS_GENERATOR)
            ELSE Routed(METHODOLOGY_DESIGNER, None)
      [] OTHER -> Routed(None, None)

\* _make_routing_decision with its three handlers, on the state s of the
\* workflow w and the supervisor's table
routing_decision_for(s, table, w) ==
    CASE s.status = INITIALIZED -> Routed(LITERATURE_HUNTER, None)
      [] s.status = SEARCHING ->
            IF s.papers >= min_papers THEN Routed(KNOWLEDGE_SYNTHESIZER, None)
            ELSE IF current_retries(table, w, LITERATURE_HUNTER) < default_max_retries[LITERATURE_HUNTER]
            THEN Routed(LITERATURE_HUNTER, LITERATURE_HUNTER)
            ELSE IF s.papers > 0 THEN Routed(KNOWLEDGE_SYNTHESIZER, None)
            ELSE Routed(None, None)
      [] s.status = SYNTHESIZING ->
            IF ~s.synthesis.present
            THEN IF current_retries(table, w, KNOWLEDGE_SYNTHESIZER) < default_max_retries[KNOWLEDGE_SYNTHESIZER]
                 THEN Routed(KNOWLEDGE_SYNTHESIZER, KNOWLEDGE_SYNTHESIZER)
                 ELSE Routed(HYPOTHESIS_GENERATOR, None)
            ELSE IF s.synthesis.patterns >= min_patterns \/ s.synthesis.research_gaps > 0
            THEN Routed(HYPOTHESIS_GENERATOR, None)
            ELSE IF s.papers < poor_synthesis_paper_bound THEN Routed(LITERATURE_HUNTER, None)
            ELSE Routed(HYPOTHESIS_GENERATOR, None)
      [] s.status = GENERATING ->
            IF s.hypotheses = <<>> THEN Routed(HYPOTHESIS_GENERATOR, None)
            ELSE IF /\ ~validate_hypotheses_quality(s.hypotheses)
                    /\ current_retries(table, w, HYPOTHESIS_GENERATOR) < default_max_retries[HYPOTHESIS_GENERATOR]
            THEN Routed(HYPOTHESIS_GENERATOR, HYPOTHESIS_GENERATOR)
            ELSE Routed(METHODOLOGY_DESIGNER, None)
      [] OTHER -> Routed(None, None)

\* the fields of the single run and of the LangGraph run
instances_frame == <<status, current_agent, should_continue, max_papers, papers, synthesis,
                     hypotheses, methodologies, validation_results, errors, last_decision,
                     retry_counts, max_retries, max_duration_seconds, elapsed, pc, ran,
                     graph_state, graph_pc,
                     strategies, candidates, search_result, search_pc, search_max_papers, detection>>

\* SupervisorAgent.process for the workflow w, then the edge out of the supervisor
instance_supervisor(w) ==
    /\ instances[w].pc = "supervisor"
    /\ LET d == routing_decision_for(instances[w], shared_retry_counts, w)
       IN /\ shared_retry_counts' =
                IF d.retried # None THEN write_retry(shared_retry_counts, w, d.retried)
                ELSE shared_retry_counts
          /\ instances' =
                [instances EXCEPT ![w] =
                    [@ EXCEPT !.status = IF d.next_agent # None THEN status_map(d.next_agent) ELSE @,
                              !.pc = IF d.next_agent \in {LITERATURE_HUNTER, KNOWLEDGE_SYNTHESIZER,
                                                          HYPOTHESIS_GENERATOR}
                                     THEN d.next_agent ELSE "end"]]
    /\ UNCHANGED instances_frame

\* the worker the instance's driver selected runs and hands back to the supervisor
instance_worker(w) ==
    /\ \/ /\ instances[w].pc = LITERATURE_HUNTER
          /\ \/ \E n \in InstancePaperCounts :
                  instances' = [instances EXCEPT ![w] = [@ EXCEPT !.papers = n, !.pc = "supervisor"]]
             \/ \* the except branch clears should_continue: the run ends
                instances' = [instances EXCEPT ![w] = [@ EXCEPT !.pc = "end"]]
       \/ /\ instances[w].pc = KNOWLEDGE_SYNTHESIZER
          /\ \E syn \in InstanceSyntheses :
                instances' = [instances EXCEPT ![w] = [@ EXCEPT !.synthesis = syn, !.pc = "supervisor"]]
       \/ /\ instances[w].pc = HYPOTHESIS_GENERATOR
          /\ \E hs \in InstanceHypotheses :
                instances' = [instances EXCEPT ![w] = [@ EXCEPT !.hypotheses = hs, !.pc = "supervisor"]]
    /\ UNCHANGED shared_retry_counts
    /\ UNCHANGED instances_frame

\* reset_retry_counts(w) on a finished instance
instance_reset(w) ==
    /\ instances[w].pc = "end"
    /\ shared_retry_counts[w] # [a \in Workers |-> 0]
    /\ shared_retry_counts' = [shared_retry_counts EXCEPT ![w] = [a \in Workers |-> 0]]
    /\ UNCHANGED instances
    /\ UNCHANGED instances_frame

\* no concurrent instances
InstancesIdle ==
    /\ instances = [w \in WorkflowIds |-> [InitialInstance EXCEPT !.pc = "idle"]]
    /\ shared_retry_counts = [w \in WorkflowIds |-> [a \in Workers |-> 0]]

\* ---------------------------------------------------------------- the literature step
\* (agent/tools/preprint_apis.py, agent/workflow_utils.py, agent/graph.py,
\*  app/agents/literature_hunter.py)
\* A title is the sequence of its characters, over an alphabet with upper and
\* lower case letters, the blank and one punctuation mark. Scores are in tenths,
\* the age of a paper is (now - date_published).days at the `now` of the call.
MaxStrategies == 3

\* str.lower(), character by character
lower_char(c) ==
    CASE c = "A" -> "a" [] c = "B" -> "b" [] c = "D" -> "d" [] c = "G" -> "g"
      [] c = "Q" -> "q" [] c = "R" -> "r" [] c = "U" -> "u" [] OTHER -> c
title_lower(t) == [i \in DOMAIN t |-> lower_char(t[i])]

\* the class [a-z0-9] of the pattern
is_alnum(c) == c \in {"a", "b", "0", "1"}

\* re.sub(r'[^a-z0-9]+', '', title.lower()): every other character is removed
aggregator_normalized_title(t) == SelectSeq(title_lower(t), is_alnum)

RECURSIVE lstrip(_)
lstrip(t) == IF t # <<>> /\ Head(t) = " " THEN lstrip(Tail(t)) ELSE t

RECURSIVE rstrip(_)
rstrip(t) == IF t # <<>> /\ t[Len(t)] = " " THEN rstrip(SubSeq(t, 1, Len(t) - 1)) ELSE t

\* title.lower().strip()
hunter_title_lower(t) == rstrip(lstrip(title_lower(t)))

\* the papers the searches can return
Papers == {
    [id |-> "p1", title |-> <<"a", "b">>, quality_score |-> 5, relevance_score |-> 5,
     days_old |-> 0, source |-> "arxiv"],
    [id |-> "p2", title |-> <<"A", "b">>, quality_score |-> 4, relevance_score |-> 6,
     days_old |-> 0, source |-> "arxiv"],
    [id |-> "p3", title |-> <<"a", "b", ".">>, quality_score |-> 8, relevance_score |-> 5,
     days_old |-> 400, source |-> "biorxiv"],
    [id |-> "p4", title |-> <<"b">>, quality_score |-> 5, relevance_score |-> 5,
     days_old |-> 0, source |-> "arxiv"],
    [id |-> "p5", title |-> <<"a", " ", " ", "b">>, quality_score |-> 9, relevance_score |-> 2,
     days_old |-> 800, source |-> "osf"] }

PaperWithId(i) == CHOOSE p \in Papers : p.id = i

\* what one search returns when it succeeds
SearchResults ==
    {<<>>} \cup {<<p>> : p \in Papers} \cup {<<PaperWithId("p1"), PaperWithId("p2")>>}

\* SearchStrategy.priority, restricted to two levels
Priorities == {1, 2}

Strategies ==
    [priority : Priorities, outcome : {"ok"}, papers : SearchResults]
        \cup [priority : Priorities, outcome : {"raise"}, papers : {<<>>}]

StrategyPlans == UNION {[1..n -> Strategies] : n \in 1..MaxStrategies}

MaxPapersChoices == {1, 2}

\* ---- PreprintAggregator._deduplicate
first_with_title(unique, key) ==
    CHOOSE i \in DOMAIN unique :
        /\ aggregator_normalized_title(unique[i].title) = key
        /\ \A j \in 1..(i - 1) : aggregator_normalized_title(unique[j].title) # key

\* seeded fault: the better duplicate is stored at the head of the list, not at
\* the position of the entry it replaces
RECURSIVE deduplicate_into_head(_, _)
deduplicate_into_head(unique, rest) ==
    IF rest = <<>> THEN unique
    ELSE LET paper == Head(rest)
             key == aggregator_normalized_title(paper.title)
             seen == \E i \in DOMAIN unique : aggregator_normalized_title(unique[i].title) = key
         IN  IF ~seen THEN deduplicate_into_head(Append(unique, paper), Tail(rest))
             ELSE LET i == first_with_title(unique, key)
                  IN  deduplicate_into_head(
                          IF paper.quality_score > unique[i].quality_score
                          THEN [unique EXCEPT ![1] = paper]
                          ELSE unique,
                          Tail(rest))

\* the loop over the papers, with unique_papers so far
RECURSIVE deduplicate_into(_, _)
deduplicate_into(unique, rest) ==
    IF rest = <<>> THEN unique
    ELSE LET paper == Head(rest)
             key == aggregator_normalized_title(paper.title)
             seen == \E i \in DOMAIN unique : aggregator_normalized_title(unique[i].title) = key
         IN  IF ~seen THEN deduplicate_into(Append(unique, paper), Tail(rest))
             ELSE LET i == first_with_title(unique, key)
                  IN  deduplicate_into(
                          IF paper.quality_score > unique[i].quality_score
                          THEN [unique EXCEPT ![i] = paper]
                          ELSE unique,
                          Tail(rest))

\* seeded fault of the aggregator's deduplication
aggregator_deduplicate_into_head(ps) == deduplicate_into_head(<<>>, ps)

aggregator_deduplicate(ps) == deduplicate_into(<<>>, ps)

\* ---- PaperProcessor.deduplicate_papers: the first paper of every id
RECURSIVE deduplicate_by_id(_, _)
deduplicate_by_id(unique, rest) ==
    IF rest = <<>> THEN unique
    ELSE IF \E i \in DOMAIN unique : unique[i].id = Head(rest).id
         THEN deduplicate_by_id(unique, Tail(rest))
         ELSE deduplicate_by_id(Append(unique, Head(rest)), Tail(rest))

deduplicate_papers(ps) == deduplicate_by_id(<<>>, ps)

\* ---- LiteratureHunterAgent._deduplicate_papers: the first paper of every
\* lowered and stripped title
RECURSIVE deduplicate_by_title(_, _)
deduplicate_by_title(unique, rest) ==
    IF rest = <<>> THEN unique
    ELSE IF \E i \in DOMAIN unique :
                hunter_title_lower(unique[i].title) = hunter_title_lower(Head(rest).title)
         THEN deduplicate_by_title(unique, Tail(rest))
         ELSE deduplicate_by_title(Append(unique, Head(rest)), Tail(rest))

hunter_deduplicate_papers(ps) == deduplicate_by_title(<<>>, ps)

\* ---- ranking
\* source_weights.get(paper.source, 0.8), in hundredths
source_weights(source) ==
    CASE source = "arxiv" -> 100
      [] source \in {"biorxiv", "medrxiv"} -> 95
      [] source = "chemrxiv" -> 90
      [] source \in {"researchsquare", "ssrn"} -> 85
      [] OTHER -> 80

\* metadata['ranking_score'] of _rank_papers, times 73000:
\* relevance * 0.4 + quality * 0.3 + max(0, 1 - days_old / 365) * 0.2 + source * 0.1
ranking_score(p) ==
    2920 * p.relevance_score + 2190 * p.quality_score
        + 40 * (IF p.days_old < 365 THEN 365 - p.days_old ELSE 0)
        + 73 * source_weights(p.source)

\* PaperProcessor.calculate_paper_score, times 14600:
\* (relevance + quality) / 2, plus 0.1 * (1 - days_old / 730) below two years
calculate_paper_score(p) ==
    730 * (p.relevance_score + p.quality_score)
        + (IF p.days_old < 730 THEN 2 * (730 - p.days_old) ELSE 0)

\* list.sort(key, reverse=True) and sorted(key, reverse=True): descending and
\* stable, x goes behind the elements whose key is at least its own
RECURSIVE insert_by_key(_, _, _)
insert_by_key(s, x, key) ==
    IF s = <<>> THEN <<x>>
    ELSE IF key[Head(s)] >= key[x] THEN <<Head(s)>> \o insert_by_key(Tail(s), x, key)
    ELSE <<x>> \o s

RECURSIVE sorted_reverse(_, _)
sorted_reverse(ps, key) ==
    IF ps = <<>> THEN <<>>
    ELSE insert_by_key(sorted_reverse(SubSeq(ps, 1, Len(ps) - 1), key), ps[Len(ps)], key)

\* PreprintAggregator._rank_papers
aggregator_rank_papers(ps) == sorted_reverse(ps, [p \in Papers |-> ranking_score(p)])

\* PaperProcessor.rank_papers
rank_papers(ps) == sorted_reverse(ps, [p \in Papers |-> calculate_paper_score(p)])

\* LiteratureHunterAgent._score_relevance: sorted by the relevance score
score_relevance(ps) == sorted_reverse(ps, [p \in Papers |-> p.relevance_score])

\* ---- the searches
\* sorted(strategies, key=priority): ascending and stable
RECURSIVE insert_by_priority(_, _)
insert_by_priority(s, x) ==
    IF s = <<>> THEN <<x>>
    ELSE IF Head(s).priority <= x.priority THEN <<Head(s)>> \o insert_by_priority(Tail(s), x)
    ELSE <<x>> \o s

RECURSIVE sorted_strategies(_)
sorted_strategies(ss) ==
    IF ss = <<>> THEN <<>>
    ELSE insert_by_priority(sorted_strategies(SubSeq(ss, 1, Len(ss) - 1)), ss[Len(ss)])

\* seeded fault: the first failing search ends the loop
RECURSIVE extend_until_failure(_)
extend_until_failure(ss) ==
    IF ss = <<>> THEN <<>>
    ELSE IF Head(ss).outcome = "ok" THEN Head(ss).papers \o extend_until_failure(Tail(ss))
    ELSE <<>>

\* all_papers.extend(...) for every search in turn; a search that raises is
\* caught and adds nothing
RECURSIVE extend_all(_)
extend_all(ss) ==
    IF ss = <<>> THEN <<>>
    ELSE (IF Head(ss).outcome = "ok" THEN Head(ss).papers ELSE <<>>) \o extend_all(Tail(ss))

\* seeded fault of _execute_search_strategies
execute_strategies_aborting(ss) == extend_until_failure(sorted_strategies(ss))

\* _execute_search_strategies: search_results["all_papers"]
execute_strategies(ss) == extend_all(sorted_strategies(ss))

\* _consolidate_search_results
consolidate(ps, max) == Prefix(rank_papers(deduplicate_papers(ps)), max)

\* LiteratureHunterAgent.process: deduplicate, score and rank, take the top papers
hunter_final_papers(ps, max) == Prefix(score_relevance(hunter_deduplicate_papers(ps)), max)

\* the fields of the three runs, which the literature functions do not touch
search_frame == <<status, current_agent, should_continue, max_papers, papers, synthesis,
                  hypotheses, methodologies, validation_results, errors, last_decision,
                  retry_counts, max_retries, max_duration_seconds, elapsed, pc, ran,
                  graph_state, graph_pc, instances, shared_retry_counts, detection>>

\* a function applied to the candidate list; it is not given the strategies
applied(name, result) ==
    /\ search_pc = "candidates"
    /\ search_pc' = name
    /\ search_result' = result
    /\ strategies' = <<>>
    /\ UNCHANGED <<candidates, search_max_papers>>
    /\ UNCHANGED search_frame

\* graph.py: _execute_search_strategies on the strategies the generative call returned
execute_search_strategies ==
    /\ search_pc = "strategies"
    /\ candidates' = execute_strategies(strategies)
    /\ search_pc' = "candidates"
    /\ UNCHANGED <<strategies, search_result, search_max_papers>>
    /\ UNCHANGED search_frame

\* graph.py: _consolidate_search_results
consolidate_search_results ==
    applied("_consolidate_search_results", consolidate(candidates, search_max_papers))

\* literature_hunter.py: the tail of process
hunter_process ==
    applied("process", hunter_final_papers(candidates, search_max_papers))

\* preprint_apis.py: search_all over the servers in the order given, every server
\* returning at most max_results_per_server papers
search_all ==
    /\ search_pc = "strategies"
    /\ \A i \in DOMAIN strategies : Len(strategies[i].papers) <= search_max_papers
    /\ candidates' = extend_all(strategies)
    /\ search_result' = aggregator_rank_papers(aggregator_deduplicate(extend_all(strategies)))
    /\ search_pc' = "search_all"
    /\ UNCHANGED <<strategies, search_max_papers>>
    /\ UNCHANGED search_frame

call_aggregator_deduplicate == applied("_deduplicate", aggregator_deduplicate(candidates))

call_deduplicate_papers == applied("deduplicate_papers", deduplicate_papers(candidates))

call_hunter_deduplicate_papers ==
    applied("_deduplicate_papers", hunter_deduplicate_papers(candidates))

call_aggregator_rank_papers == applied("_rank_papers", aggregator_rank_papers(candidates))

call_rank_papers == applied("rank_papers", rank_papers(candidates))

\* ---------------------------------------------------------------- preprint_apis.py: field detection
\* a string is the sequence of its characters
\* the words a query is made of, at most MaxWords of them joined by blanks
MaxWords == 3

Words == {
    <<"Q", "u", "a", "n", "t", "u", "m">>,
    <<"c", "e", "l", "l">>,
    <<"D", "R", "U", "G">>,
    <<"t", "h", "e", "r", "a", "p", "y">>,
    <<"g", "e", "n", "e", "r", "a", "l">>,
    <<"m", "a", "c", "h", "i", "n", "e">>,
    <<"l", "e", "a", "r", "n", "i", "n", "g">>,
    <<"s", "u", "r", "v", "e", "y">> }

RECURSIVE join(_)
join(ws) == IF Len(ws) = 1 THEN ws[1] ELSE ws[1] \o <<" ">> \o join(Tail(ws))

Queries == {<<>>} \cup {join(ws) : ws \in UNION {[1..n -> Words] : n \in 1..MaxWords}}

\* PreprintAggregator.apis
apis == {"arxiv", "biorxiv", "medrxiv", "chemrxiv", "ssrn", "researchsquare"}

\* PreprintAggregator.field_preferences, with the default of the .get in search_all
field_preferences(field) ==
    CASE field = "physics" -> <<"arxiv">>
      [] field = "computer science" -> <<"arxiv">>
      [] field = "mathematics" -> <<"arxiv">>
      [] field = "biology" -> <<"biorxiv", "arxiv">>
      [] field = "medicine" -> <<"medrxiv", "biorxiv">>
      [] field = "chemistry" -> <<"chemrxiv", "arxiv">>
      [] field = "economics" -> <<"ssrn", "arxiv">>
      [] field = "social sciences" -> <<"ssrn", "researchsquare">>
      [] OTHER -> <<"arxiv", "biorxiv", "medrxiv", "researchsquare">>

\* field_keywords of detect_field, in the order of the dict
field_keywords == <<
    [field |-> "physics", keywords |-> <<
        <<"q", "u", "a", "n", "t", "u", "m">>,
        <<"p", "a", "r", "t", "i", "c", "l", "e">>,
        <<"r", "e", "l", "a", "t", "i", "v", "i", "t", "y">>,
        <<"c", "o", "s", "m", "o", "l", "o", "g", "y">>,
        <<"p", "h", "y", "s", "i", "c", "s">>>>],
    [field |-> "computer science", keywords |-> <<
        <<"a", "l", "g", "o", "r", "i", "t", "h", "m">>,
        <<"m", "a", "c", "h", "i", "n", "e", " ", "l", "e", "a", "r", "n", "i", "n", "g">>,
        <<"n", "e", "u", "r", "a", "l", " ", "n", "e", "t", "w", "o", "r", "k">>,
        <<"s", "o", "f", "t", "w", "a", "r", "e">>,
        <<"c", "o", "m", "p", "u", "t", "a", "t", "i", "o", "n">>>>],
    [field |-> "mathematics", keywords |-> <<
        <<"t", "h", "e", "o", "r", "e", "m">>,
        <<"p", "r", "o", "o", "f">>,
        <<"a", "l", "g", "e", "b", "r", "a">>,
        <<"t", "o", "p", "o", "l", "o", "g", "y">>,
        <<"c", "a", "l", "c", "u", "l", "u", "s">>>>],
    [field |-> "biology", keywords |-> <<
        <<"c", "e", "l", "l">>,
        <<"p", "r", "o", "t", "e", "i", "n">>,
        <<"g", "e", "n", "e">>,
        <<"d", "n", "a">>,
        <<"e", "v", "o", "l", "u", "t", "i", "o", "n">>,
        <<"o", "r", "g", "a", "n", "i", "s", "m">>>>],
    [field |-> "medicine", keywords |-> <<
        <<"t", "r", "e", "a", "t", "m", "e", "n", "t">>,
        <<"d", "i", "s", "e", "a", "s", "e">>,
        <<"c", "l", "i", "n", "i", "c", "a", "l">>,
        <<"p", "a", "t", "i", "e", "n", "t">>,
        <<"t", "h", "e", "r", "a", "p", "y">>,
        <<"d", "r", "u", "g">>>>],
    [field |-> "chemistry", keywords |-> <<
        <<"m", "o", "l", "e", "c", "u", "l", "e">>,
        <<"r", "e", "a", "c", "t", "i", "o", "n">>,
        <<"c", "o", "m", "p", "o", "u", "n", "d">>,
        <<"s", "y", "n", "t", "h", "e", "s", "i", "s">>,
        <<"c", "a", "t", "a", "l", "y", "s", "t">>>>],
    [field |-> "economics", keywords |-> <<
        <<"m", "a", "r", "k", "e", "t">>,
        <<"e", "c", "o", "n", "o", "m", "y">>,
        <<"f", "i", "n", "a", "n", "c", "e">>,
        <<"t", "r", "a", "d", "e">>,
        <<"m", "o", "n", "e", "t", "a", "r", "y">>>>],
    [field |-> "social sciences", keywords |-> <<
        <<"s", "o", "c", "i", "e", "t", "y">>,
        <<"p", "s", "y", "c", "h", "o", "l", "o", "g", "y">>,
        <<"b", "e", "h", "a", "v", "i", "o", "r">>,
        <<"c", "u", "l", "t", "u", "r", "e">>,
        <<"s", "o", "c", "i", "a", "l">>>>]>>

\* keyword in query_lower
is_substring(k, s) == \E i \in 0..(Len(s) - Len(k)) : SubSeq(s, i + 1, i + Len(k)) = k

\* sum(1 for keyword in keywords if keyword in query_lower)
field_score(i, query_lower) ==
    Cardinality({j \in DOMAIN field_keywords[i].keywords :
                    is_substring(field_keywords[i].keywords[j], query_lower)})

\* seeded fault: the first field with a matching keyword is returned
detect_field_first_match(query) ==
    LET query_lower == title_lower(query)
        field_scores == {i \in DOMAIN field_keywords : field_score(i, query_lower) > 0}
    IN IF field_scores # {}
       THEN field_keywords[CHOOSE i \in field_scores : \A j \in field_scores : i <= j].field
       ELSE "general"

\* detect_field: max(field_scores, key=field_scores.get) gives the first key, in
\* the order of insertion, among those of the greatest score
detect_field(query) ==
    LET query_lower == title_lower(query)
        field_scores == {i \in DOMAIN field_keywords : field_score(i, query_lower) > 0}
    IN IF field_scores # {}
       THEN field_keywords[CHOOSE i \in field_scores : \A j \in field_scores :
                \/ field_score(j, query_lower) < field_score(i, query_lower)
                \/ field_score(j, query_lower) = field_score(i, query_lower) /\ i <= j].field
       ELSE "general"

\* the servers argument of search_all when the caller names the servers
GivenServers == {<<"arxiv">>, <<"ssrn", "osf">>}

NoDetection == [query |-> <<>>, field |-> "", auto |-> FALSE, searched |-> <<>>, pc |-> "idle"]

detection_frame == <<status, current_agent, should_continue, max_papers, papers, synthesis,
                     hypotheses, methodologies, validation_results, errors, last_decision,
                     retry_counts, max_retries, max_duration_seconds, elapsed, pc, ran,
                     graph_state, graph_pc, instances, shared_retry_counts,
                     strategies, candidates, search_result, search_pc, search_max_papers>>

\* detect_field called on the query
call_detect_field ==
    /\ detection.pc = "query"
    /\ detection' = [detection EXCEPT !.field = detect_field(detection.query),
                                       !.pc = "detect_field"]
    /\ UNCHANGED detection_frame

\* search_all, lines 657-674: the servers are the caller's or, with servers=None,
\* those preferred for the detected field; search_server skips a name that is
\* not in apis, every other server is searched
search_all_servers ==
    /\ detection.pc = "query"
    /\ \E auto \in BOOLEAN : \E given \in GivenServers :
         LET field == IF auto THEN detect_field(detection.query) ELSE ""
             servers == IF auto THEN field_preferences(field) ELSE given
         IN detection' = [detection EXCEPT !.field = field, !.auto = auto,
                              !.searched = SelectSeq(servers, LAMBDA n : n \in apis),
                              !.pc = "search_all"]
    /\ UNCHANGED detection_frame

\* no search under way
SearchStepIdle ==
    /\ strategies = <<>>
    /\ candidates = <<>>
    /\ search_result = <<>>
    /\ search_pc = "idle"
    /\ search_max_papers = 0

\* no literature step under way
SearchIdle == SearchStepIdle /\ detection = NoDetection

Init ==
    /\ status = INITIALIZED
    /\ current_agent = SUPERVISOR
    /\ should_continue = TRUE
    /\ \E c \in Configs :
            /\ max_retries = c.max_retries
            /\ max_duration_seconds = c.max_duration_seconds
            /\ max_papers = c.max_papers
    /\ papers = 0
    /\ synthesis = NoSynthesis
    /\ hypotheses = <<>>
    /\ methodologies = <<>>
    /\ validation_results = <<>>
    /\ errors = <<>>
    /\ last_decision = Decision(None, TRUE, "")
    /\ retry_counts = [a \in Workers |-> 0]
    /\ elapsed = 0
    /\ pc = "supervisor"
    /\ ran = [a \in Workers |-> "never"]
    /\ GraphIdle
    /\ InstancesIdle
    /\ SearchIdle

worker_step ==
    \/ literature_hunter_node
    \/ knowledge_synthesizer_node
    \/ hypothesis_generator_node
    \/ methodology_designer_node
    \/ validation_node

Next ==
    \/ supervisor_node
    \/ supervisor_recall
    \/ reset_retry_counts
    \/ literature_hunter_node
    \/ knowledge_synthesizer_node
    \/ hypothesis_generator_node
    \/ methodology_designer_node
    \/ validation_node
    \/ tick

Spec == Init /\ [][Next]_vars

\* the driver runs the node it has selected: LangGraph executes the next node of
\* a running graph, so neither the supervisor node nor a worker node waits forever
FairSpec == Spec /\ WF_vars(supervisor_node) /\ WF_vars(worker_step)

\* ---------------------------------------------------------------- the LangGraph run
\* the rule-based pipeline is not running: its state is the one of a fresh
\* workflow that no node is selected for
AppIdle ==
    /\ status = INITIALIZED
    /\ current_agent = SUPERVISOR
    /\ should_continue = TRUE
    /\ max_retries = default_max_retries
    /\ max_duration_seconds = 0
    /\ max_papers = 50
    /\ papers = 0
    /\ synthesis = NoSynthesis
    /\ hypotheses = <<>>
    /\ methodologies = <<>>
    /\ validation_results = <<>>
    /\ errors = <<>>
    /\ last_decision = Decision(None, TRUE, "")
    /\ retry_counts = [a \in Workers |-> 0]
    /\ elapsed = 0
    /\ pc = "idle"
    /\ ran = [a \in Workers |-> "never"]

\* graph_builder.add_edge(START, "supervisor") on the initial state
GraphInit ==
    /\ AppIdle
    /\ graph_pc = "supervisor"
    /\ graph_state = GraphInitialState
    /\ InstancesIdle
    /\ SearchIdle

graph_worker_step ==
    \/ graph_literature_hunter
    \/ graph_synthesizer
    \/ graph_hypothesis_generator
    \/ graph_validator

GraphNext ==
    \/ graph_supervisor
    \/ graph_literature_hunter
    \/ graph_synthesizer
    \/ graph_hypothesis_generator
    \/ graph_validator

GraphSpec == GraphInit /\ [][GraphNext]_vars

\* a run of either pipeline
PipelinesSpec == (Init \/ GraphInit) /\ [][Next \/ GraphNext]_vars

\* ---------------------------------------------------------------- concurrent runs
\* run_research called for every workflow id on one orchestrator
InstancesInit ==
    /\ AppIdle
    /\ GraphIdle
    /\ instances = [w \in WorkflowIds |-> InitialInstance]
    /\ shared_retry_counts = [w \in WorkflowIds |-> [a \in Workers |-> 0]]
    /\ SearchIdle

InstancesNext ==
    \E w \in WorkflowIds :
        \/ instance_supervisor(w)
        \/ instance_worker(w)
        \/ instance_reset(w)

\* the event loop interleaves the runs at their awaits, node by node
InstancesSpec == InstancesInit /\ [][InstancesNext]_vars

\* ---------------------------------------------------------------- a literature step
\* the strategies of one step and the caller's maximum
SearchInit ==
    /\ AppIdle
    /\ GraphIdle
    /\ InstancesIdle
    /\ strategies \in StrategyPlans
    /\ candidates = <<>>
    /\ search_result = <<>>
    /\ search_pc = "strategies"
    /\ search_max_papers \in MaxPapersChoices
    /\ detection = NoDetection

SearchNext ==
    \/ execute_search_strategies
    \/ search_all
    \/ consolidate_search_results
    \/ hunter_process
    \/ call_aggregator_deduplicate
    \/ call_deduplicate_papers
    \/ call_hunter_deduplicate_papers
    \/ call_aggregator_rank_papers
    \/ call_rank_papers

SearchSpec == SearchInit /\ [][SearchNext]_vars

\* ---------------------------------------------------------------- field detection on a given query
DetectionInit ==
    /\ AppIdle
    /\ GraphIdle
    /\ InstancesIdle
    /\ SearchStepIdle
    /\ \E q \in Queries : detection = [NoDetection EXCEPT !.query = q, !.pc = "query"]

DetectionNext == call_detect_field \/ search_all_servers

DetectionSpec == DetectionInit /\ [][DetectionNext]_vars

\* ---------------------------------------------------------------- process on a given state
\* SupervisorAgent.process is called with a ResearchState; the states a caller
\* can hand over, stage by stage, with the fields the stage's handler reads
ProcessErrors ==
    {<<>>} \cup {<<[agent |-> SUPERVISOR, msg |-> "Synthesis failed", detail |-> x]>> :
                    x \in ExceptionTexts}

ProcessRetryCounts ==
    {[[w \in Workers |-> 0] EXCEPT ![a] = n] :
        a \in {LITERATURE_HUNTER, KNOWLEDGE_SYNTHESIZER, HYPOTHESIS_GENERATOR}, n \in 0..3}

ProcessSyntheses ==
    {NoSynthesis} \cup
        {[present |-> TRUE, patterns |-> o[1], research_gaps |-> o[2], key_findings |-> 1] :
            o \in SynthesisOutcomes}

\* a status string that is no member of WorkflowStatus
UnknownStatus == "paused"

ProcessHypotheses ==
    {<<>>, <<[id |-> 1, confidence_score |-> 4]>>, <<[id |-> 1, confidence_score |-> 6]>>,
     <<[id |-> 1, confidence_score |-> 6], [id |-> 2, confidence_score |-> 4]>>}

ProcessInit ==
    /\ GraphIdle
    /\ InstancesIdle
    /\ SearchIdle
    /\ \E c \in Configs :
            /\ max_retries = c.max_retries
            /\ max_duration_seconds = c.max_duration_seconds
            /\ max_papers = c.max_papers
    /\ should_continue \in BOOLEAN
    /\ errors \in ProcessErrors
    /\ retry_counts \in ProcessRetryCounts
    /\ last_decision = Decision(None, TRUE, "")
    /\ elapsed = 0
    /\ pc = "supervisor"
    /\ ran = [a \in Workers |-> "never"]
    /\ \/ /\ status = SEARCHING /\ current_agent = LITERATURE_HUNTER
          /\ papers \in PaperCounts
          /\ synthesis = NoSynthesis
          /\ hypotheses = <<>> /\ methodologies = <<>> /\ validation_results = <<>>
       \/ /\ status = SYNTHESIZING /\ current_agent = KNOWLEDGE_SYNTHESIZER
          /\ papers \in PaperCounts
          /\ synthesis \in ProcessSyntheses
          /\ hypotheses = <<>> /\ methodologies = <<>> /\ validation_results = <<>>
       \/ /\ status = GENERATING /\ current_agent = HYPOTHESIS_GENERATOR
          /\ papers = min_papers
          /\ synthesis = MinimalSynthesis
          /\ hypotheses \in ProcessHypotheses
          /\ methodologies \in {<<>>, <<1>>}
          /\ validation_results = <<>>
       \/ /\ status = VALIDATING /\ current_agent = VALIDATION
          /\ papers = min_papers
          /\ synthesis = MinimalSynthesis
          /\ hypotheses = <<[id |-> 1, confidence_score |-> 6]>>
          /\ methodologies = <<1>>
          /\ validation_results \in {<<>>, <<[hypothesis_id |-> 1, is_valid |-> TRUE]>>}
       \/ /\ status = UnknownStatus /\ current_agent = SUPERVISOR
          /\ papers \in {0, min_papers}
          /\ synthesis = NoSynthesis
          /\ hypotheses = <<>> /\ methodologies = <<>>
          /\ validation_results \in {<<>>, <<[hypothesis_id |-> 1, is_valid |-> TRUE]>>}

\* one call of process and the edge out of the supervisor node
ProcessSpec == ProcessInit /\ [][supervisor_node]_vars

\* ---------------------------------------------------------------- properties
\* a call of SupervisorAgent.process, by the driver or on a finished state
SupervisorCall == supervisor_node \/ supervisor_recall

\* the error log holds a message of the critical class (rate limit)
CriticalLogged == \E i \in DOMAIN errors : errors[i].detail = "Rate Limit exceeded"

\* the configured time budget is exceeded
TimedOut == max_duration_seconds > 0 /\ elapsed > max_duration_seconds

\* C1: whenever the driver has routed to end, the status is Completed or Failed.
C1_EndStatusTerminal == pc = "end" => status \in Terminal

\* C2: with no time budget configured, every run eventually reaches the end of
\* the graph, whatever the workers return.
C2_RunTerminates == (max_duration_seconds = 0) => <>(pc = "end")

\* C3: in every reachable state, a false continue flag implies a terminal status.
C3_StoppedImpliesTerminal == ~should_continue => status \in Terminal

\* C4: a supervisor call on a Completed or Failed state keeps the status and
\* routes to end.
C4_TerminalAbsorbing ==
    [][(status \in Terminal /\ SupervisorCall) => (status' = status /\ pc' = "end")]_vars

\* the supervisor was called on the Completed state the validation worker left
C4_Witness == pc = "end" /\ status = COMPLETED /\ current_agent = VALIDATION

TerminationCondition ==
    \/ ~should_continue
    \/ status \in Terminal
    \/ Len(errors) >= max_errors
    \/ TimedOut

C6_RetriesExactlyMax ==
    \A a \in {LITERATURE_HUNTER, KNOWLEDGE_SYNTHESIZER, HYPOTHESIS_GENERATOR} :
        (pc = "end" /\ ran[a] = "all_failed" /\ ~CriticalLogged /\ ~TimedOut
            /\ Len(errors) < max_errors)
        => retry_counts[a] = max_retries[a]

\* C7: a supervisor call on a state that meets the termination condition routes
\* to end with the continue flag false and status Completed if validation
\* results exist, Failed otherwise.
C7_TerminalDecision ==
    [][(TerminationCondition /\ SupervisorCall) =>
        /\ pc' = "end"
        /\ ~should_continue'
        /\ status' = IF validation_results # <<>> THEN COMPLETED ELSE FAILED]_vars

\* the run was ended by the error count: five stage errors, none from a worker
\* that clears the continue flag, no timeout
C7_Witness ==
    /\ pc = "end" /\ status = FAILED /\ ~should_continue
    /\ Len(errors) >= max_errors /\ ~TimedOut
    /\ errors[Len(errors)].agent = METHODOLOGY_DESIGNER

\* C8: without critical error and timeout, a run ends Failed only with zero papers.
C8_FailedOnlyWithoutPapers ==
    (pc = "end" /\ status = FAILED /\ ~CriticalLogged /\ ~TimedOut) => papers = 0

\* C9: a worker execution leaves status, current agent, continue flag and
\* retry counters unchanged.
C9_WorkersKeepControl == [][worker_step => UNCHANGED control]_vars

\* C10: a worker execution that logs an error appends exactly one entry and
\* changes neither an artifact nor a control field.
C10_FailureOnlyAppends ==
    [][(worker_step /\ errors' # errors) =>
        /\ Len(errors') = Len(errors) + 1
        /\ SubSeq(errors', 1, Len(errors)) = errors
        /\ UNCHANGED artifacts
        /\ UNCHANGED control]_vars

\* C11: every change of the status, by the supervisor or by a worker, is a pair
\* of the adjacency table VALID_TRANSITIONS.
C11_TransitionsLegal ==
    [][status' # status => is_valid_transition(status, status')]_vars

\* C12: a run starts at the supervisor; a worker execution hands over to the
\* supervisor and a supervisor decision to a worker or to the end; and in no
\* state can both a supervisor and a worker run, or two nodes of a pipeline:
\* after a worker only the supervisor can run. In both pipelines.
C12_StrictAlternation ==
    /\ (pc = "supervisor" \/ graph_pc = "supervisor")
    /\ [](~(ENABLED SupervisorCall /\ ENABLED worker_step))
    /\ [](~(ENABLED graph_supervisor /\ ENABLED graph_worker_step))
    /\ [](pc = "supervisor" => ENABLED supervisor_node)
    /\ [][/\ worker_step => pc' = "supervisor"
          /\ supervisor_node => pc' \in Workers \cup {"end"}
          /\ graph_worker_step => graph_pc' \in {"supervisor", "raised"}
          /\ graph_supervisor => graph_pc' \in GraphWorkers \cup {"end", "raised"}]_vars

\* both pipelines have gone round the loop: a second worker ran after the
\* supervisor decided on the first one's result
C12_Witness ==
    \/ pc = "supervisor" /\ ran[LITERATURE_HUNTER] # "never" /\ ran[KNOWLEDGE_SYNTHESIZER] # "never"
    \/ graph_pc = "supervisor" /\ graph_state.iteration = 2 /\ graph_state.synthesis

\* C13: no supervisor decision, worker execution or clock step lowers a retry
\* counter; a step that lowers one is the explicit reset_retry_counts.
C13_CountersMonotone ==
    [][/\ (SupervisorCall \/ worker_step \/ tick) =>
            \A a \in Workers : retry_counts'[a] >= retry_counts[a]
       /\ (\E a \in Workers : retry_counts'[a] < retry_counts[a]) => reset_retry_counts]_vars

\* the supervisor routed back to the search after a poor synthesis, with
\* search retries already counted
C13_Witness ==
    /\ last_decision.reason = "Poor synthesis - getting more papers"
    /\ retry_counts[LITERATURE_HUNTER] > 0
    /\ pc = LITERATURE_HUNTER

\* the stage a of the workflow w is due for a retry: its own condition and its
\* own counter, nothing of another stage or another workflow
RetryDue(w, a) ==
    /\ shared_retry_counts[w][a] < default_max_retries[a]
    /\ CASE a = LITERATURE_HUNTER ->
                instances[w].status = SEARCHING /\ instances[w].papers < min_papers
         [] a = KNOWLEDGE_SYNTHESIZER ->
                instances[w].status = SYNTHESIZING /\ ~instances[w].synthesis.present
         [] a = HYPOTHESIS_GENERATOR ->
                /\ instances[w].status = GENERATING
                /\ instances[w].hypotheses # <<>>
                /\ SumConf(instances[w].hypotheses) < min_confidence * Len(instances[w].hypotheses)
         [] OTHER -> FALSE

\* C14: with several workflows on one supervisor, a decision (or a reset) for
\* one workflow leaves every other workflow's counters as they are, and a
\* decision increments a stage's counter exactly when that stage is due for
\* a retry, whatever the other stages' counters are.
C14_CountersScoped ==
    [][\A w \in WorkflowIds :
        /\ (instance_supervisor(w) \/ instance_reset(w)) =>
                \A v \in WorkflowIds \ {w} : shared_retry_counts'[v] = shared_retry_counts[v]
        /\ instance_supervisor(w) =>
                \A a \in Workers :
                    shared_retry_counts'[w][a] =
                        IF RetryDue(w, a) THEN shared_retry_counts[w][a] + 1
                        ELSE shared_retry_counts[w][a]]_vars

\* one workflow has used up its search retries and then retried the generation,
\* while the other workflow is still within its search retries
C14_Witness ==
    /\ shared_retry_counts["w1"][LITERATURE_HUNTER] = default_max_retries[LITERATURE_HUNTER]
    /\ shared_retry_counts["w1"][HYPOTHESIS_GENERATOR] = 1
    /\ shared_retry_counts["w2"][LITERATURE_HUNTER] = 1
    /\ shared_retry_counts["w2"][HYPOTHESIS_GENERATOR] = 0
    /\ instances["w2"].pc = LITERATURE_HUNTER

C16_OneWriterPerArtifact ==
    [][/\ papers' # papers => literature_hunter_node
       /\ hypotheses' # hypotheses => hypothesis_generator_node
       /\ methodologies' # methodologies => methodology_designer_node
       /\ validation_results' # validation_results => validation_node
       /\ graph_state'.papers # graph_state.papers => graph_literature_hunter
       /\ graph_state'.hypotheses # graph_state.hypotheses => graph_hypothesis_generator
       /\ graph_state'.validation_results # graph_state.validation_results => graph_validator]_vars

\* a run in which every stage has written its artifact and the supervisor has
\* decided after each of them
C16_Witness ==
    \/ /\ pc = "end" /\ status = COMPLETED
       /\ papers > 0 /\ hypotheses # <<>> /\ methodologies # <<>> /\ validation_results # <<>>
       /\ retry_counts[HYPOTHESIS_GENERATOR] > 0
    \/ /\ graph_pc = "supervisor"
       /\ graph_state.papers > 0 /\ graph_state.synthesis
       /\ graph_state.hypotheses > 0 /\ graph_state.validation_results > 0

\* the error log holds an entry that says no papers were found
NoPapersLogged ==
    \E i \in DOMAIN errors :
        "No papers found after maximum retries" \in {errors[i].msg, errors[i].detail}

\* C17: when the supervisor decides on a search that found zero papers with the
\* search retries used up (and neither the termination check nor a critical
\* error pre-empts the decision), the run ends with status Failed and a
\* 'no papers found' entry in the error log.
C17_NoPapersFails ==
    [][(/\ supervisor_node
        /\ status = SEARCHING /\ papers = 0
        /\ retry_counts[LITERATURE_HUNTER] >= max_retries[LITERATURE_HUNTER]
        /\ ~TerminationCondition /\ ~CriticalLogged)
       => (pc' = "end" /\ status' = FAILED /\ NoPapersLogged')]_vars

\* C18: a supervisor decision on a search that returned n papers, 0 < n <
\* min_papers (no termination condition, no critical error): while search
\* retries are left it routes to the search again, counts one retry and
\* doubles the paper cap up to 200; with the retries used up (after the one
\* retry, if one is configured) it advances to the synthesis with the cap as it
\* is. The n papers stay in the state in both cases.
C18_ShortfallRetriesThenAdvances ==
    [][(/\ supervisor_node
        /\ status = SEARCHING /\ 0 < papers /\ papers < min_papers
        /\ ~TerminationCondition /\ ~CriticalLogged)
       => /\ papers' = papers
          /\ IF retry_counts[LITERATURE_HUNTER] < max_retries[LITERATURE_HUNTER]
             THEN /\ status' = SEARCHING /\ pc' = LITERATURE_HUNTER
                  /\ retry_counts'[LITERATURE_HUNTER] = retry_counts[LITERATURE_HUNTER] + 1
                  /\ max_papers' = IF 2 * max_papers > 200 THEN 200 ELSE 2 * max_papers
             ELSE /\ status' = SYNTHESIZING /\ pc' = KNOWLEDGE_SYNTHESIZER
                  /\ retry_counts' = retry_counts
                  /\ max_papers' = max_papers]_vars

\* one retry configured, both searches returned 3 papers: one retry was counted,
\* the cap went from 4 to 8, and the synthesis is next with the 3 papers
C18_Witness ==
    /\ max_retries[LITERATURE_HUNTER] = 1 /\ retry_counts[LITERATURE_HUNTER] = 1
    /\ max_papers = 8 /\ papers = 3
    /\ status = SYNTHESIZING /\ pc = KNOWLEDGE_SYNTHESIZER
    /\ errors = <<>>

\* C19: a supervisor decision in status Synthesizing on a synthesis with zero
\* patterns and zero gaps and at least 20 papers (no termination condition, no
\* critical error) advances to Generating with the hypothesis generator next;
\* it does not return to the search and leaves the paper cap alone.
C19_LimitedSynthesisAdvances ==
    [][(/\ supervisor_node
        /\ status = SYNTHESIZING
        /\ synthesis.present /\ synthesis.patterns = 0 /\ synthesis.research_gaps = 0
        /\ papers >= 20
        /\ ~TerminationCondition /\ ~CriticalLogged)
       => /\ status' = GENERATING /\ pc' = HYPOTHESIS_GENERATOR
          /\ max_papers' = max_papers /\ retry_counts' = retry_counts]_vars

\* the supervisor went on to the generation with an empty synthesis of 20 papers
C19_Witness ==
    /\ status = GENERATING /\ pc = HYPOTHESIS_GENERATOR
    /\ synthesis = [present |-> TRUE, patterns |-> 0, research_gaps |-> 0, key_findings |-> 1]
    /\ papers = 20
    /\ hypotheses = <<>>

\* C20: a run that has ended with a non-empty list of validation results has
\* status Completed, whatever the verdicts are.
C20_ResultsComplete ==
    (pc = "end" /\ validation_results # <<>>) => status = COMPLETED

\* a run ended Completed on two validation results, none of them valid
C20_Witness ==
    /\ pc = "end" /\ status = COMPLETED
    /\ Len(validation_results) = 2
    /\ \A i \in DOMAIN validation_results : ~validation_results[i].is_valid

\* ---- the literature step
\* the normalized title of the specification: lowercased, punctuation stripped,
\* whitespace collapsed
LowerCased(c) == IF c = "A" THEN "a" ELSE IF c = "B" THEN "b" ELSE c

NotPunctuation(c) == c \notin {".", ",", "!", "-"}

RECURSIVE CollapseBlanks(_)
CollapseBlanks(t) ==
    IF Len(t) < 2 THEN t
    ELSE IF t[1] = " " /\ t[2] = " " THEN CollapseBlanks(Tail(t))
    ELSE <<t[1]>> \o CollapseBlanks(Tail(t))

NormalizedTitle(t) ==
    CollapseBlanks(SelectSeq([i \in DOMAIN t |-> LowerCased(t[i])], NotPunctuation))

\* out is a deduplication of in: papers of in, no normalized title twice, and
\* for every paper of in an entry of its title that is at least as good
Deduplicated(in, out) ==
    /\ \A j \in DOMAIN out : \E i \in DOMAIN in : out[j] = in[i]
    /\ \A i, j \in DOMAIN out :
            i # j => NormalizedTitle(out[i].title) # NormalizedTitle(out[j].title)
    /\ \A i \in DOMAIN in : \E j \in DOMAIN out :
            /\ NormalizedTitle(out[j].title) = NormalizedTitle(in[i].title)
            /\ out[j].quality_score >= in[i].quality_score

\* C21: the list a deduplication returns (the aggregator's, the paper
\* processor's, the literature hunter's) holds no two papers with equal
\* normalized titles, and of every group of candidates with equal normalized
\* titles it holds the one with the highest quality score.
C21_DeduplicationByTitle ==
    search_pc \in {"_deduplicate", "deduplicate_papers", "_deduplicate_papers"}
        => Deduplicated(candidates, search_result)

\* C22: the aggregator's deduplication is idempotent: deduplicating the list
\* it returned gives that list again, same size and same order.
C22_DeduplicationIdempotent ==
    search_pc = "_deduplicate"
        => /\ aggregator_deduplicate(search_result) = search_result
           /\ aggregator_deduplicate(aggregator_deduplicate(candidates))
                = aggregator_deduplicate(candidates)

\* the aggregator replaced an entry behind the head of the list by a better
\* duplicate found later
C22_Witness ==
    /\ search_pc = "_deduplicate"
    /\ Len(candidates) = 3 /\ Len(search_result) = 2
    /\ search_result[2] = candidates[3] /\ candidates[3] # candidates[2]
    /\ search_result[1] = candidates[1]

\* the composite score of the specification, times 73000:
\* 0.4 * relevance + 0.3 * quality + 0.2 * recency + 0.1 * source_weight,
\* recency = max(0, 1 - age_days / 365)
CompositeScore(p) ==
    LET recency365 == IF 365 - p.days_old > 0 THEN 365 - p.days_old ELSE 0
    IN  2920 * p.relevance_score + 2190 * p.quality_score + 40 * recency365
            + 73 * source_weights(p.source)

\* the papers of s whose composite score is v, in the order of s
WithScore(s, v) ==
    LET Test(p) == CompositeScore(p) = v
    IN  SelectSeq(s, Test)

\* out is in sorted descending by the composite score, equal scores in the order of in
Ranked(in, out) ==
    /\ Len(out) = Len(in)
    /\ \A i, j \in DOMAIN out : i < j => CompositeScore(out[i]) >= CompositeScore(out[j])
    /\ \A p \in Papers : WithScore(out, CompositeScore(p)) = WithScore(in, CompositeScore(p))

\* C23: the list a ranking returns (the aggregator's, the paper processor's)
\* is sorted descending by the composite score, papers of equal score keep
\* the order in which they were found, and ranking the returned list again
\* gives the same order.
C23_RankedByComposite ==
    /\ search_pc = "_rank_papers"
        => /\ Ranked(candidates, search_result)
           /\ aggregator_rank_papers(search_result) = search_result
    /\ search_pc = "rank_papers"
        => /\ Ranked(candidates, search_result)
           /\ rank_papers(search_result) = search_result

\* out is the first max entries of full
FirstOf(full, out, max) ==
    /\ Len(out) <= max
    /\ Len(out) = Len(full) \/ Len(out) = max
    /\ \A i \in DOMAIN out : i \in DOMAIN full /\ out[i] = full[i]

\* C24: the output of a literature step (the consolidation of the LangGraph
\* pipeline, the literature hunter's process, the aggregator's search_all) is
\* the first max_papers entries of the deduplicated and ranked candidates: it
\* never holds more papers than the caller asked for, and it is cut from the
\* ranked list, not from the candidates.
C24_CappedAfterRanking ==
    /\ search_pc = "_consolidate_search_results"
        => FirstOf(rank_papers(deduplicate_papers(candidates)), search_result, search_max_papers)
    /\ search_pc = "process"
        => FirstOf(score_relevance(hunter_deduplicate_papers(candidates)), search_result,
                   search_max_papers)
    /\ search_pc = "search_all"
        => FirstOf(aggregator_rank_papers(aggregator_deduplicate(candidates)), search_result,
                   search_max_papers)

\* the papers of the searches of ss that succeeded, in the order of ss
RECURSIVE Succeeded(_)
Succeeded(ss) ==
    IF ss = <<>> THEN <<>>
    ELSE IF Head(ss).outcome = "raise" THEN Succeeded(Tail(ss))
    ELSE Head(ss).papers \o Succeeded(Tail(ss))

\* the strategies of ss that have the priority p, in the order of ss
OfPriority(ss, p) ==
    LET Test(x) == x.priority = p
    IN  SelectSeq(ss, Test)

\* C25: the strategies run in ascending priority number and a strategy that
\* fails adds nothing and stops no other one: the candidate list is the
\* concatenation, in priority order, of the results of the strategies that
\* succeeded (for the aggregator's servers: in the order of the servers).
C25_FailingStrategyIsolated ==
    /\ search_pc = "candidates"
        => candidates = Succeeded(OfPriority(strategies, 1)) \o Succeeded(OfPriority(strategies, 2))
    /\ search_pc = "search_all" => candidates = Succeeded(strategies)

\* a strategy of priority 1 failed between two that succeeded, and the papers
\* of the later strategy of priority 1 come before those of priority 2
C25_Witness ==
    /\ search_pc = "candidates"
    /\ Len(strategies) = 3
    /\ strategies[1].priority = 2 /\ strategies[1].outcome = "ok" /\ strategies[1].papers # <<>>
    /\ strategies[2].priority = 1 /\ strategies[2].outcome = "raise"
    /\ strategies[3].priority = 1 /\ strategies[3].outcome = "ok" /\ strategies[3].papers # <<>>
    /\ strategies[3].papers # strategies[1].papers
    /\ candidates = strategies[3].papers \o strategies[1].papers

\* C26: in the LangGraph pipeline a supervisor call that starts with the
\* iteration counter at or above max_workflow_iterations routes to end,
\* whatever decision the generative call returns.
C26_IterationLimitEnds ==
    [][(graph_supervisor /\ graph_state.iteration >= max_workflow_iterations)
        => graph_pc' \in {"end", "raised"}]_vars

\* ---- the supervisor's stage handlers
\* C27: called in status Synthesizing without a synthesis (no termination
\* condition, no critical error), the supervisor re-routes to the synthesis
\* and adds one to the synthesis retry counter while the counter is below its
\* maximum; at the maximum it stores a placeholder synthesis with no pattern
\* and one finding and goes on to the hypothesis generation. In neither case
\* does the run end.
C27_MissingSynthesisRetriedThenReplaced ==
    [][(/\ supervisor_node
        /\ status = SYNTHESIZING /\ ~synthesis.present
        /\ ~TerminationCondition /\ ~CriticalLogged)
       => /\ should_continue' /\ pc' # "end"
          /\ IF retry_counts[KNOWLEDGE_SYNTHESIZER] < max_retries[KNOWLEDGE_SYNTHESIZER]
             THEN /\ pc' = KNOWLEDGE_SYNTHESIZER /\ status' = SYNTHESIZING
                  /\ retry_counts' = [retry_counts EXCEPT ![KNOWLEDGE_SYNTHESIZER] = @ + 1]
                  /\ synthesis' = synthesis
             ELSE /\ pc' = HYPOTHESIS_GENERATOR /\ status' = GENERATING
                  /\ retry_counts' = retry_counts
                  /\ synthesis'.present /\ synthesis'.patterns = 0
                  /\ synthesis'.key_findings = 1]_vars

\* the synthesis retries were used up and the supervisor stored the placeholder
C27_Witness ==
    /\ pc = HYPOTHESIS_GENERATOR /\ status = GENERATING
    /\ retry_counts[KNOWLEDGE_SYNTHESIZER] = max_retries[KNOWLEDGE_SYNTHESIZER]
    /\ synthesis = MinimalSynthesis
    /\ last_decision.reason = "Proceeding with minimal synthesis after retries"
    /\ papers = 0

\* a supervisor call in status Synthesizing on a stored synthesis that the
\* termination and critical-error checks let through
SynthesisJudged ==
    /\ supervisor_node
    /\ status = SYNTHESIZING /\ synthesis.present
    /\ ~TerminationCondition /\ ~CriticalLogged

\* C28 (as stated): with a synthesis present the supervisor returns to
\* Searching exactly when the synthesis has no pattern and no gap and there
\* are fewer papers than the upper bound; otherwise it advances to Generating.
C28_BackOnlyWhenEmpty ==
    [][SynthesisJudged
       => IF /\ synthesis.patterns = 0 /\ synthesis.research_gaps = 0
             /\ papers < poor_synthesis_paper_bound
          THEN status' = SEARCHING /\ pc' = LITERATURE_HUNTER
          ELSE status' = GENERATING /\ pc' = HYPOTHESIS_GENERATOR]_vars

\* C28 (amended): with a synthesis present the supervisor returns to Searching
\* exactly when the synthesis has fewer than min_patterns patterns and no gap
\* and there are fewer papers than the upper bound; otherwise it advances to
\* Generating.
C28_BackWhenBelowMinPatterns ==
    [][SynthesisJudged
       => IF /\ synthesis.patterns < min_patterns /\ synthesis.research_gaps = 0
             /\ papers < poor_synthesis_paper_bound
          THEN status' = SEARCHING /\ pc' = LITERATURE_HUNTER
          ELSE status' = GENERATING /\ pc' = HYPOTHESIS_GENERATOR]_vars

\* the supervisor went back to the search on a synthesis with one pattern
C28_Witness ==
    /\ status = SEARCHING /\ pc = LITERATURE_HUNTER
    /\ synthesis.present /\ synthesis.patterns = 1 /\ synthesis.research_gaps = 0
    /\ last_decision.reason = "Poor synthesis - getting more papers"

\* the average confidence of hs is below the threshold (0.5)
BelowConfidence(hs) == SumConf(hs) < min_confidence * Len(hs)

\* C29: a supervisor call in status Generating (no termination condition, no
\* critical error) selects the hypothesis generator if there is no hypothesis;
\* the hypothesis generator again, with the hypothesis retry counter raised by
\* one, if there are hypotheses without methodologies whose average confidence
\* is below the threshold and the counter is below its maximum; the
\* methodology designer if there are hypotheses without methodologies and the
\* quality check passes or the retries are used up; the validation if there
\* are hypotheses and methodologies.
C29_GenerationPhaseRouting ==
    [][(/\ supervisor_node
        /\ status = GENERATING
        /\ ~TerminationCondition /\ ~CriticalLogged)
       => IF hypotheses = <<>>
          THEN pc' = HYPOTHESIS_GENERATOR /\ retry_counts' = retry_counts
          ELSE IF methodologies # <<>>
          THEN pc' = VALIDATION /\ status' = VALIDATING /\ retry_counts' = retry_counts
          ELSE IF /\ BelowConfidence(hypotheses)
                  /\ retry_counts[HYPOTHESIS_GENERATOR] < max_retries[HYPOTHESIS_GENERATOR]
          THEN /\ pc' = HYPOTHESIS_GENERATOR
               /\ retry_counts' = [retry_counts EXCEPT ![HYPOTHESIS_GENERATOR] = @ + 1]
          ELSE pc' = METHODOLOGY_DESIGNER /\ retry_counts' = retry_counts]_vars

\* hypotheses of low confidence were sent back once, came back low again with
\* the retries used up, and went on to the methodology design
C29_Witness ==
    /\ pc = METHODOLOGY_DESIGNER /\ status = GENERATING
    /\ hypotheses # <<>> /\ BelowConfidence(hypotheses)
    /\ methodologies = <<>>
    /\ retry_counts[HYPOTHESIS_GENERATOR] = max_retries[HYPOTHESIS_GENERATOR]
    /\ max_retries[HYPOTHESIS_GENERATOR] = 1

\* C30: a supervisor call in status Validating with no validation result ends
\* the run with status Failed.
C30_NoValidationResultsFails ==
    [][(supervisor_node /\ status = VALIDATING /\ validation_results = <<>>)
        => (status' = FAILED /\ ~should_continue' /\ pc' = "end")]_vars

\* C31: a supervisor call on a status outside the known set (no termination
\* condition, no critical error) selects no worker and ends the run with
\* status Failed and a reason naming the unknown status.
C31_UnknownStatusFails ==
    [][(/\ supervisor_node /\ status \notin WorkflowStatus
        /\ ~TerminationCondition /\ ~CriticalLogged)
        => /\ pc' = "end" /\ ~should_continue'
           /\ status' = FAILED
           /\ last_decision'.reason = "Unknown workflow status"]_vars


\* C32: a supervisor call made after the elapsed-time budget is exceeded ends
\* the run as an explicit termination does: no worker is routed to, the
\* continue flag is false, the status is Completed if validation results exist
\* and Failed otherwise, the error log is unchanged and so is every retry counter.
C32_TimeoutTerminates ==
    [][(TimedOut /\ SupervisorCall) =>
        /\ pc' = "end"
        /\ ~should_continue'
        /\ status' = IF validation_results # <<>> THEN COMPLETED ELSE FAILED
        /\ errors' = errors
        /\ retry_counts' = retry_counts]_vars

\* the budget alone ended the run: the last routing decision continued, no
\* worker logged an error, papers were found, and the run is Failed at the end
C32_Witness ==
    /\ pc = "end" /\ status = FAILED /\ ~should_continue
    /\ TimedOut /\ errors = <<>>
    /\ last_decision.should_continue /\ papers >= min_papers


\* the log a is an initial segment of the log b
IsPrefix(a, b) == Len(a) <= Len(b) /\ \A i \in DOMAIN a : b[i] = a[i]

\* C33: the error log is append-only: across every supervisor decision and
\* every worker execution the previous log is a prefix of the new one.
C33_ErrorsAppendOnly ==
    [][(SupervisorCall \/ worker_step) => IsPrefix(errors, errors')]_vars

\* two workers have failed in one run and the supervisor has decided after
\* the second failure: the log holds both entries in the order they were made
C33_Witness ==
    /\ Len(errors) >= 2
    /\ errors[1].agent = KNOWLEDGE_SYNTHESIZER
    /\ errors[2].agent = HYPOTHESIS_GENERATOR
    /\ pc = METHODOLOGY_DESIGNER


\* the keyword k occurs in the query q, letter case apart
Occurs(k, q) ==
    \E i \in 1..Len(q) : /\ i + Len(k) - 1 <= Len(q)
                          /\ \A j \in 1..Len(k) : lower_char(q[i + j - 1]) = k[j]

\* the keyword-match count of the i-th domain on the query q
MatchCount(i, q) ==
    Cardinality({k \in {field_keywords[i].keywords[j] : j \in DOMAIN field_keywords[i].keywords} :
                    Occurs(k, q)})

NoKeywordOccurs(q) == \A i \in DOMAIN field_keywords : MatchCount(i, q) = 0

\* the field is a domain of maximal keyword-match count on q
MaximalDomain(field, q) ==
    \E i \in DOMAIN field_keywords :
        /\ field_keywords[i].field = field
        /\ \A j \in DOMAIN field_keywords : MatchCount(j, q) <= MatchCount(i, q)

\* C34: field detection returns the general domain exactly when no domain
\* keyword occurs in the query, and otherwise a domain of maximal keyword-match
\* count; a search that detects the field searches the general source set in
\* the first case and exactly the detected domain's preferred sources in the second.
C34_FieldDetection ==
    LET q == detection.query
        detected == detection.pc = "detect_field" \/ (detection.pc = "search_all" /\ detection.auto)
    IN detected =>
        /\ (detection.field = "general") <=> NoKeywordOccurs(q)
        /\ ~NoKeywordOccurs(q) => MaximalDomain(detection.field, q)
        /\ detection.pc = "search_all" =>
              detection.searched = IF NoKeywordOccurs(q)
                                   THEN <<"arxiv", "biorxiv", "medrxiv", "researchsquare">>
                                   ELSE field_preferences(detection.field)

\* a search on a query with one keyword of biology and two of medicine, one
\* of them in capitals, after the biology keyword: medicine's sources are searched
C34_Witness ==
    /\ detection.pc = "search_all" /\ detection.auto
    /\ detection.query = join(<<<<"c", "e", "l", "l">>, <<"D", "R", "U", "G">>, <<"t", "h", "e", "r", "a", "p", "y">>>>)
    /\ detection.field = "medicine"
    /\ detection.searched = <<"medrxiv", "biorxiv">>


\* C35: status Completed is reached only with a non-empty list of validation
\* results, at the end of a run and at every state before it.
C35_CompletedOnlyWithResults ==
    status = COMPLETED => validation_results # <<>>

\* a run ended Completed after a validation that paired one hypothesis of two:
\* the methodology design had failed and left the fallback methodology
C35_Witness ==
    /\ pc = "end" /\ status = COMPLETED /\ ran = Ok(VALIDATION)
    /\ Len(hypotheses) = 2 /\ Len(methodologies) = 1
    /\ Len(validation_results) = 1


\* C36: the supervisor respects the stage preconditions: from the initial
\* state the first worker it routes to is the literature search; it routes to
\* synthesis only with papers, to hypothesis generation only with a synthesis,
\* to methodology design only with hypotheses, and to validation only with
\* hypotheses and methodologies.
C36_StagePreconditions ==
    [][supervisor_node =>
        /\ (ran = [a \in Workers |-> "never"] /\ pc' \in Workers) => pc' = LITERATURE_HUNTER
        /\ pc' = KNOWLEDGE_SYNTHESIZER => papers' > 0
        /\ pc' = HYPOTHESIS_GENERATOR => synthesis'.present
        /\ pc' = METHODOLOGY_DESIGNER => hypotheses' # <<>>
        /\ pc' = VALIDATION => (hypotheses' # <<>> /\ methodologies' # <<>>)]_vars


\* the supervisor has routed to validation in a run that went on with fewer
\* papers than the threshold after its search retries
C36_Witness ==
    /\ pc = VALIDATION /\ hypotheses # <<>> /\ methodologies # <<>>
    /\ synthesis.present
    /\ papers > 0 /\ papers < min_papers
    /\ retry_counts[LITERATURE_HUNTER] = max_retries[LITERATURE_HUNTER]


\* C37: for every workflow and every stage the retry counter stays within
\* 0..max_retries[stage], the single run's counters included, and no step
\* raises a counter that is at its maximum.
C37_CountersBounded ==
    /\ [](\A w \in WorkflowIds : \A a \in Workers :
            shared_retry_counts[w][a] \in 0..default_max_retries[a])
    /\ [](\A a \in Workers : retry_counts[a] \in 0..max_retries[a])
    /\ [][\A w \in WorkflowIds : \A a \in Workers :
            shared_retry_counts'[w][a] > shared_retry_counts[w][a]
                => shared_retry_counts[w][a] < default_max_retries[a]]_vars
    /\ [][\A a \in Workers :
            retry_counts'[a] > retry_counts[a] => retry_counts[a] < max_retries[a]]_vars

\* one workflow has used up its search retries and gone on with the papers it
\* has, the other has used up its generation retries
C37_Witness ==
    /\ shared_retry_counts["w1"][LITERATURE_HUNTER] = default_max_retries[LITERATURE_HUNTER]
    /\ instances["w1"].pc = KNOWLEDGE_SYNTHESIZER
    /\ instances["w1"].papers \in 1..(min_papers - 1)
    /\ shared_retry_counts["w2"][HYPOTHESIS_GENERATOR] = default_max_retries[HYPOTHESIS_GENERATOR]
    /\ instances["w2"].pc = "end"


\* C38: no step of a run lowers the requested paper cap max_papers.
C38_MaxPapersNeverDecreases ==
    [][max_papers' >= max_papers]_vars


\* C39: after a supervisor decision that leaves the continue flag true and the
\* status non-terminal the driver runs exactly the worker the decision named;
\* after one that leaves the flag false or the status terminal it runs no
\* worker and the run ends.
C39_DriverFollowsDecision ==
    [][supervisor_node =>
        IF should_continue' /\ status' \notin Terminal
        THEN pc' \in Workers /\ pc' = last_decision'.next_agent
        ELSE pc' = "end"]_vars

\* the driver has started the worker of a retry decision: the search again
C39_Witness ==
    /\ pc = LITERATURE_HUNTER /\ should_continue /\ status = SEARCHING
    /\ last_decision.next_agent = LITERATURE_HUNTER
    /\ last_decision.reason = "Retrying search with expanded parameters"
    /\ ran[LITERATURE_HUNTER] # "never"


\* C40: in the LangGraph pipeline a step that changes the error log leaves the
\* previous log followed by exactly one new message.
C40_ReducerAppendsOne ==
    [][graph_state'.errors # graph_state.errors =>
        /\ Len(graph_state'.errors) = Len(graph_state.errors) + 1
        /\ SubSeq(graph_state'.errors, 1, Len(graph_state.errors)) = graph_state.errors]_vars
====
